---- MODULE Spec2Model ----
(***************************************************************************)
(* Model of the table text renderer of docx-parser-converter:              *)
(*   src/docx_parser_converter_python/converters/text/table_to_text.py     *)
(*                                                                         *)
(* A Python str is a sequence of one-character strings, so that join,      *)
(* ljust, replace and len are computed character by character.  An         *)
(* optional value (X | None) is a sequence of length 0 (None) or 1.        *)
(* Python indices (row_idx, col_idx) stay 0-based; a TLA+ sequence is      *)
(* 1-based, so element i of a list is seq[i + 1].                          *)
(***************************************************************************)
EXTENDS Integers, Sequences, FiniteSets, TLC

VARIABLES table, call, ret, converter, log, counters, styles, walk

vars == <<table, call, ret, converter, log, counters, styles, walk>>

(***************************************************************************)
(* Bounds of the checked input sets.                                       *)
(***************************************************************************)
\* rows of a table and cells of a row, in the rendering specifications
MaxRows == 2

MaxCols == 2

\* cells of a table in all, in the rendering specifications
MaxCells == 4

\* rows, cells of a row and declared borders, in border detection
MaxBorderRows == 2

MaxBorderCols == 2

MaxBorderDeclared == 2

\* calls made on one converter and on the entry point, one after the other
MaxCalls == 3

\* paragraphs of one render pass
MaxParagraphs == 5

\* styles of a styles table
MaxStyles == 3

(***************************************************************************)
(* Python values.                                                          *)
(***************************************************************************)
None == <<>>

Some(x) == <<x>>

EmptyStr == <<>>

NL == "\n"

TAB == "\t"

SP == " "

Max(a, b) == IF a >= b THEN a ELSE b

\* a list built element by element: [f(i) for i in ...] as an explicit sequence
List(f) == f \o <<>>

RECURSIVE Sum(_)
\* sum(list)
Sum(s) == IF s = <<>> THEN 0 ELSE Head(s) + Sum(Tail(s))

\* ch * n ; a count below 1 gives the empty string
Repeat(ch, n) == List([i \in 1..n |-> ch])

RECURSIVE Join(_, _)
\* sep.join(parts)
Join(parts, sep) ==
  IF parts = <<>> THEN EmptyStr
  ELSE IF Len(parts) = 1 THEN Head(parts)
  ELSE Head(parts) \o sep \o Join(Tail(parts), sep)

\* s.ljust(width)
ljust(s, width) == s \o Repeat(SP, width - Len(s))

\* s.replace("\n", " ")
replace_newlines(s) == List([i \in 1..Len(s) |-> IF s[i] = NL THEN SP ELSE s[i]])

RECURSIVE Flatten(_)
\* the concatenation of a list of lists
Flatten(ss) == IF ss = <<>> THEN <<>> ELSE Head(ss) \o Flatten(Tail(ss))

(***************************************************************************)
(* BorderInfo                                                              *)
(***************************************************************************)
BorderInfo(t, b, l, r, ih, iv) ==
  [top |-> t, bottom |-> b, left |-> l, right |-> r, inside_h |-> ih, inside_v |-> iv]

BorderInfoDefault == BorderInfo(FALSE, FALSE, FALSE, FALSE, FALSE, FALSE)

has_any(info) ==
  info.top \/ info.bottom \/ info.left \/ info.right \/ info.inside_h \/ info.inside_v

AllBorderInfo ==
  [top : BOOLEAN, bottom : BOOLEAN, left : BOOLEAN, right : BOOLEAN,
   inside_h : BOOLEAN, inside_v : BOOLEAN]

(***************************************************************************)
(* Cell content extraction                                                 *)
(***************************************************************************)
\* The rendered text of a paragraph: the paragraph carries it.
paragraph_to_text(content) == content.text

RECURSIVE cell_parts_keeps_empty(_)
\* mutant: a paragraph without text is appended like the others
cell_parts_keeps_empty(content) ==
  IF content = <<>> THEN <<>>
  ELSE LET item == Head(content)
           rest == cell_parts_keeps_empty(Tail(content))
       IN IF item.kind = "Paragraph"
          THEN <<paragraph_to_text(item)>> \o rest
          ELSE rest

RECURSIVE cell_parts(_)
\* the loop of cell_to_text: the non-empty texts of the Paragraph items
cell_parts(content) ==
  IF content = <<>> THEN <<>>
  ELSE LET item == Head(content)
           rest == cell_parts(Tail(content))
       IN IF item.kind = "Paragraph"
          THEN LET text == paragraph_to_text(item)
               IN IF text # EmptyStr THEN <<text>> \o rest ELSE rest
          ELSE rest

cell_to_text(cell) ==
  IF cell = None THEN EmptyStr
  ELSE Join(cell_parts(cell[1].content), <<NL>>)

\* mutant: a cell without text is left out of the row
row_to_text_skips_empty(row, separator) ==
  IF row = None THEN EmptyStr
  ELSE LET cells == List([i \in 1..Len(row[1].tc) |-> cell_to_text(Some(row[1].tc[i]))])
       IN Join(SelectSeq(cells, LAMBDA t : t # EmptyStr), separator)

row_to_text(row, separator) ==
  IF row = None THEN EmptyStr
  ELSE LET cells == List([i \in 1..Len(row[1].tc) |-> cell_to_text(Some(row[1].tc[i]))])
       IN Join(cells, separator)

(***************************************************************************)
(* Border detection                                                        *)
(***************************************************************************)
\* mutant: only the style "none" is tested
_is_border_visible_only_none(border) ==
  /\ border # None
  /\ border[1].val # None
  /\ border[1].val[1] # "none"

_is_border_visible(border) ==
  /\ border # None
  /\ border[1].val # None
  /\ border[1].val[1] \notin {"none", "nil"}

\* mutant: a top or bottom border of any cell counts as an inside border
visit_cell_inside_any_row(tbl, info, row_idx, col_idx) ==
  LET row  == tbl.tr[row_idx + 1]
      cell == row.tc[col_idx + 1]
  IN IF cell.tc_pr # None /\ cell.tc_pr[1].tc_borders # None
     THEN LET cb == cell.tc_pr[1].tc_borders[1]
              nrows == Len(tbl.tr)
              ncells == Len(row.tc)
          IN [top |-> info.top \/ (row_idx = 0 /\ _is_border_visible(cb.top)),
              bottom |-> info.bottom
                  \/ (row_idx = nrows - 1 /\ _is_border_visible(cb.bottom)),
              left |-> info.left \/ (col_idx = 0 /\ _is_border_visible(cb.left)),
              right |-> info.right
                  \/ (col_idx = ncells - 1 /\ _is_border_visible(cb.right)),
              inside_h |-> info.inside_h
                  \/ _is_border_visible(cb.bottom)
                  \/ _is_border_visible(cb.top),
              inside_v |-> info.inside_v
                  \/ (col_idx < ncells - 1 /\ _is_border_visible(cb.right))
                  \/ (col_idx > 0 /\ _is_border_visible(cb.left))]
     ELSE info

\* mutant: a bottom border of a cell of any row sets the bottom flag
visit_cell_bottom_any_row(tbl, info, row_idx, col_idx) ==
  LET row  == tbl.tr[row_idx + 1]
      cell == row.tc[col_idx + 1]
  IN IF cell.tc_pr # None /\ cell.tc_pr[1].tc_borders # None
     THEN LET cb == cell.tc_pr[1].tc_borders[1]
              nrows == Len(tbl.tr)
              ncells == Len(row.tc)
          IN [top |-> info.top \/ (row_idx = 0 /\ _is_border_visible(cb.top)),
              bottom |-> info.bottom \/ _is_border_visible(cb.bottom),
              left |-> info.left \/ (col_idx = 0 /\ _is_border_visible(cb.left)),
              right |-> info.right
                  \/ (col_idx = ncells - 1 /\ _is_border_visible(cb.right)),
              inside_h |-> info.inside_h
                  \/ (row_idx < nrows - 1 /\ _is_border_visible(cb.bottom))
                  \/ (row_idx > 0 /\ _is_border_visible(cb.top)),
              inside_v |-> info.inside_v
                  \/ (col_idx < ncells - 1 /\ _is_border_visible(cb.right))
                  \/ (col_idx > 0 /\ _is_border_visible(cb.left))]
     ELSE info

\* mutant: the right flag is assigned from the last cell of each row
visit_cell_right_assigned(tbl, info, row_idx, col_idx) ==
  LET row  == tbl.tr[row_idx + 1]
      cell == row.tc[col_idx + 1]
  IN IF cell.tc_pr # None /\ cell.tc_pr[1].tc_borders # None
     THEN LET cb == cell.tc_pr[1].tc_borders[1]
              nrows == Len(tbl.tr)
              ncells == Len(row.tc)
          IN [top |-> info.top \/ (row_idx = 0 /\ _is_border_visible(cb.top)),
              bottom |-> info.bottom
                  \/ (row_idx = nrows - 1 /\ _is_border_visible(cb.bottom)),
              left |-> info.left \/ (col_idx = 0 /\ _is_border_visible(cb.left)),
              right |-> IF col_idx = ncells - 1 THEN _is_border_visible(cb.right)
                        ELSE info.right,
              inside_h |-> info.inside_h
                  \/ (row_idx < nrows - 1 /\ _is_border_visible(cb.bottom))
                  \/ (row_idx > 0 /\ _is_border_visible(cb.top)),
              inside_v |-> info.inside_v
                  \/ (col_idx < ncells - 1 /\ _is_border_visible(cb.right))
                  \/ (col_idx > 0 /\ _is_border_visible(cb.left))]
     ELSE info

\* mutant: a left or right border of any cell counts as an inside border
visit_cell_inside_any_col(tbl, info, row_idx, col_idx) ==
  LET row  == tbl.tr[row_idx + 1]
      cell == row.tc[col_idx + 1]
  IN IF cell.tc_pr # None /\ cell.tc_pr[1].tc_borders # None
     THEN LET cb == cell.tc_pr[1].tc_borders[1]
              nrows == Len(tbl.tr)
              ncells == Len(row.tc)
          IN [top |-> info.top \/ (row_idx = 0 /\ _is_border_visible(cb.top)),
              bottom |-> info.bottom
                  \/ (row_idx = nrows - 1 /\ _is_border_visible(cb.bottom)),
              left |-> info.left \/ (col_idx = 0 /\ _is_border_visible(cb.left)),
              right |-> info.right
                  \/ (col_idx = ncells - 1 /\ _is_border_visible(cb.right)),
              inside_h |-> info.inside_h
                  \/ (row_idx < nrows - 1 /\ _is_border_visible(cb.bottom))
                  \/ (row_idx > 0 /\ _is_border_visible(cb.top)),
              inside_v |-> info.inside_v
                  \/ _is_border_visible(cb.right)
                  \/ _is_border_visible(cb.left)]
     ELSE info

\* the body of the loop of detect_borders for one cell
visit_cell(tbl, info, row_idx, col_idx) ==
  LET row  == tbl.tr[row_idx + 1]
      cell == row.tc[col_idx + 1]
  IN IF cell.tc_pr # None /\ cell.tc_pr[1].tc_borders # None
     THEN LET cb == cell.tc_pr[1].tc_borders[1]
              nrows == Len(tbl.tr)
              ncells == Len(row.tc)
          IN [top |-> info.top \/ (row_idx = 0 /\ _is_border_visible(cb.top)),
              bottom |-> info.bottom
                  \/ (row_idx = nrows - 1 /\ _is_border_visible(cb.bottom)),
              left |-> info.left \/ (col_idx = 0 /\ _is_border_visible(cb.left)),
              right |-> info.right
                  \/ (col_idx = ncells - 1 /\ _is_border_visible(cb.right)),
              inside_h |-> info.inside_h
                  \/ (row_idx < nrows - 1 /\ _is_border_visible(cb.bottom))
                  \/ (row_idx > 0 /\ _is_border_visible(cb.top)),
              inside_v |-> info.inside_v
                  \/ (col_idx < ncells - 1 /\ _is_border_visible(cb.right))
                  \/ (col_idx > 0 /\ _is_border_visible(cb.left))]
     ELSE info

RECURSIVE scan_cells(_, _, _, _)
\* the two nested loops of detect_borders, from cell (row_idx, col_idx) on
scan_cells(tbl, info, row_idx, col_idx) ==
  IF row_idx >= Len(tbl.tr) THEN info
  ELSE IF col_idx >= Len(tbl.tr[row_idx + 1].tc)
       THEN scan_cells(tbl, info, row_idx + 1, 0)
       ELSE scan_cells(tbl, visit_cell(tbl, info, row_idx, col_idx), row_idx, col_idx + 1)

\* the table-level block of detect_borders
table_level_info(tbl) ==
  IF tbl.tbl_pr # None /\ tbl.tbl_pr[1].tbl_borders # None
  THEN LET borders == tbl.tbl_pr[1].tbl_borders[1]
       IN BorderInfo(_is_border_visible(borders.top),
                     _is_border_visible(borders.bottom),
                     _is_border_visible(borders.left),
                     _is_border_visible(borders.right),
                     _is_border_visible(borders.inside_h),
                     _is_border_visible(borders.inside_v))
  ELSE BorderInfoDefault

\* mutant: the cells are scanned whatever the table-level borders are
detect_borders_always_scan(tbl) ==
  LET info == table_level_info(tbl)
  IN IF tbl.tr # <<>>
     THEN scan_cells(tbl, info, 0, 0)
     ELSE info

detect_borders(tbl) ==
  LET info == table_level_info(tbl)
  IN IF ~has_any(info) /\ tbl.tr # <<>>
     THEN scan_cells(tbl, info, 0, 0)
     ELSE info

has_visible_borders(tbl) == has_any(detect_borders(tbl))

(***************************************************************************)
(* ASCII box mode                                                          *)
(***************************************************************************)
\* mutant: the newlines of a cell's text are kept
cell_texts_keep_newlines(tbl) ==
  List([r \in 1..Len(tbl.tr) |->
     List([c \in 1..Len(tbl.tr[r].tc) |-> cell_to_text(Some(tbl.tr[r].tc[c]))])])

\* rows_data before padding: the flattened text of every cell, and max_cols
cell_texts(tbl) ==
  List([r \in 1..Len(tbl.tr) |->
     List([c \in 1..Len(tbl.tr[r].tc) |->
        replace_newlines(cell_to_text(Some(tbl.tr[r].tc[c])))])])

RECURSIVE max_len(_)
\* max_cols: the largest cell count of a row, from 0
max_len(rows) == IF rows = <<>> THEN 0 ELSE Max(Len(Head(rows)), max_len(Tail(rows)))

\* mutant: the rows are left as long as they are
pad_row_unpadded(row, max_cols) == row

\* the padding loop: every row gets "" appended until it has max_cols cells
pad_row(row, max_cols) == row \o List([i \in 1..(max_cols - Len(row)) |-> EmptyStr])

RECURSIVE col_width(_, _)
\* the width of column col_idx: from 1, the longest text of a row at col_idx
col_width(rows, col_idx) ==
  IF rows = <<>> THEN 1
  ELSE LET row == Head(rows)
           rest == col_width(Tail(rows), col_idx)
       IN IF col_idx < Len(row) THEN Max(rest, Len(row[col_idx + 1])) ELSE rest

\* mutant: the rule is segmented per column whatever inside_v is
build_h_line_always_segmented(col_widths, max_cols, left, right, inside_v) ==
  LET inner == Join(List([i \in 1..Len(col_widths) |-> Repeat("-", col_widths[i] + 2)]),
                    <<"+">>)
      left_char == IF left THEN "+" ELSE "-"
      right_char == IF right THEN "+" ELSE "-"
  IN <<left_char>> \o inner \o <<right_char>>

\* mutant: a segmented rule has a corner at both ends
build_h_line_corner_with_inside_v(col_widths, max_cols, left, right, inside_v) ==
  LET inner == IF inside_v
               THEN Join(List([i \in 1..Len(col_widths) |-> Repeat("-", col_widths[i] + 2)]),
                         <<"+">>)
               ELSE Repeat("-", Sum(col_widths) + 3 * (max_cols - 1) + 2)
      left_char == IF left \/ inside_v THEN "+" ELSE "-"
      right_char == IF right \/ inside_v THEN "+" ELSE "-"
  IN <<left_char>> \o inner \o <<right_char>>

\* mutant: the unbroken run has at least one dash
build_h_line_run_at_least_one(col_widths, max_cols, left, right, inside_v) ==
  LET inner == IF inside_v
               THEN Join(List([i \in 1..Len(col_widths) |-> Repeat("-", col_widths[i] + 2)]),
                         <<"+">>)
               ELSE Repeat("-", Max(1, Sum(col_widths) + 3 * (max_cols - 1) + 2))
      left_char == IF left THEN "+" ELSE "-"
      right_char == IF right THEN "+" ELSE "-"
  IN <<left_char>> \o inner \o <<right_char>>

build_h_line(col_widths, max_cols, left, right, inside_v) ==
  LET inner == IF inside_v
               THEN Join(List([i \in 1..Len(col_widths) |-> Repeat("-", col_widths[i] + 2)]),
                         <<"+">>)
               ELSE Repeat("-", Sum(col_widths) + 3 * (max_cols - 1) + 2)
      left_char == IF left THEN "+" ELSE "-"
      right_char == IF right THEN "+" ELSE "-"
  IN <<left_char>> \o inner \o <<right_char>>

\* mutant: the text is right-justified in its column
build_data_row_rjust(col_widths, row, left, right, inside_v) ==
  LET cells == List([i \in 1..Len(row) |->
                  <<SP>> \o Repeat(SP, col_widths[i] - Len(row[i])) \o row[i] \o <<SP>>])
      inner == IF inside_v THEN Join(cells, <<"|">>) ELSE Join(cells, <<SP>>)
      left_char == IF left THEN "|" ELSE SP
      right_char == IF right THEN "|" ELSE SP
  IN <<left_char>> \o inner \o <<right_char>>

\* mutant: the cells are joined with "|" whatever inside_v is
build_data_row_bar_always(col_widths, row, left, right, inside_v) ==
  LET cells == List([i \in 1..Len(row) |-> <<SP>> \o ljust(row[i], col_widths[i]) \o <<SP>>])
      inner == Join(cells, <<"|">>)
      left_char == IF left THEN "|" ELSE SP
      right_char == IF right THEN "|" ELSE SP
  IN <<left_char>> \o inner \o <<right_char>>

build_data_row(col_widths, row, left, right, inside_v) ==
  LET cells == List([i \in 1..Len(row) |-> <<SP>> \o ljust(row[i], col_widths[i]) \o <<SP>>])
      inner == IF inside_v THEN Join(cells, <<"|">>) ELSE Join(cells, <<SP>>)
      left_char == IF left THEN "|" ELSE SP
      right_char == IF right THEN "|" ELSE SP
  IN <<left_char>> \o inner \o <<right_char>>

\* mutant: the row separator also follows the last row
ascii_lines_sep_after_last(tbl, border_info) ==
  LET raw == cell_texts(tbl)
      max_cols == max_len(raw)
      rows_data == List([r \in 1..Len(raw) |-> pad_row(raw[r], max_cols)])
      col_widths == List([c \in 1..max_cols |-> col_width(rows_data, c - 1)])
      h_line == build_h_line(col_widths, max_cols, border_info.left,
                             border_info.right, border_info.inside_v)
      top == IF border_info.top THEN <<h_line>> ELSE <<>>
      body == Flatten(List([r \in 1..Len(rows_data) |->
                 <<build_data_row(col_widths, rows_data[r], border_info.left,
                                  border_info.right, border_info.inside_v)>>
                 \o (IF r - 1 <= Len(rows_data) - 1 /\ border_info.inside_h
                     THEN <<h_line>> ELSE <<>>)]))
      bottom == IF border_info.bottom THEN <<h_line>> ELSE <<>>
  IN top \o body \o bottom

\* the list `lines` of table_to_ascii for a table with rows
ascii_lines(tbl, border_info) ==
  LET raw == cell_texts(tbl)
      max_cols == max_len(raw)
      rows_data == List([r \in 1..Len(raw) |-> pad_row(raw[r], max_cols)])
      col_widths == List([c \in 1..max_cols |-> col_width(rows_data, c - 1)])
      h_line == build_h_line(col_widths, max_cols, border_info.left,
                             border_info.right, border_info.inside_v)
      top == IF border_info.top THEN <<h_line>> ELSE <<>>
      body == Flatten(List([r \in 1..Len(rows_data) |->
                 <<build_data_row(col_widths, rows_data[r], border_info.left,
                                  border_info.right, border_info.inside_v)>>
                 \o (IF r - 1 < Len(rows_data) - 1 /\ border_info.inside_h
                     THEN <<h_line>> ELSE <<>>)]))
      bottom == IF border_info.bottom THEN <<h_line>> ELSE <<>>
  IN top \o body \o bottom

\* border_info is optional: None has the borders detected
table_to_ascii(tbl, border_info) ==
  IF tbl.tr = <<>> THEN EmptyStr
  ELSE LET info == IF border_info = None THEN detect_borders(tbl) ELSE border_info[1]
       IN Join(ascii_lines(tbl, info), <<NL>>)

(***************************************************************************)
(* Tab-separated and plain modes                                           *)
(***************************************************************************)
\* mutant: the newlines of a row's text are replaced as in the box
table_to_tabs_flattens(tbl) ==
  IF tbl.tr = <<>> THEN EmptyStr
  ELSE Join(List([r \in 1..Len(tbl.tr) |->
                    replace_newlines(row_to_text(Some(tbl.tr[r]), <<TAB>>))]), <<NL>>)

table_to_tabs(tbl) ==
  IF tbl.tr = <<>> THEN EmptyStr
  ELSE Join(List([r \in 1..Len(tbl.tr) |-> row_to_text(Some(tbl.tr[r]), <<TAB>>)]), <<NL>>)

table_to_plain(tbl) ==
  IF tbl.tr = <<>> THEN EmptyStr
  ELSE Join(List([r \in 1..Len(tbl.tr) |-> row_to_text(Some(tbl.tr[r]), <<SP, SP>>)]),
            <<NL>>)

(***************************************************************************)
(* Main entry point                                                        *)
(***************************************************************************)
FullBorders == BorderInfo(TRUE, TRUE, TRUE, TRUE, TRUE, TRUE)

\* mutant: auto always resolves to ascii
actual_mode_always_ascii(tbl, mode) ==
  IF mode = "auto" THEN "ascii" ELSE mode

\* the mode auto resolves to
actual_mode(tbl, mode) ==
  IF mode = "auto"
  THEN (IF has_visible_borders(tbl) THEN "ascii" ELSE "tabs")
  ELSE mode

\* mutant: explicit ascii has the borders detected like auto
table_to_text_ascii_detects(tbl, mode) ==
  IF tbl = None THEN EmptyStr
  ELSE IF tbl[1].tr = <<>> THEN EmptyStr
  ELSE LET actual == actual_mode(tbl[1], mode)
       IN IF actual = "ascii" THEN table_to_ascii(tbl[1], None)
          ELSE IF actual = "tabs" THEN table_to_tabs(tbl[1])
          ELSE table_to_plain(tbl[1])

\* mutant: auto resolved to ascii draws the full box like explicit ascii
table_to_text_auto_full(tbl, mode) ==
  IF tbl = None THEN EmptyStr
  ELSE IF tbl[1].tr = <<>> THEN EmptyStr
  ELSE LET actual == actual_mode(tbl[1], mode)
       IN IF actual = "ascii" THEN table_to_ascii(tbl[1], Some(FullBorders))
          ELSE IF actual = "tabs" THEN table_to_tabs(tbl[1])
          ELSE table_to_plain(tbl[1])

\* mutant: a table without rows is not returned early, and explicit ascii
\* draws the rules of an empty box
table_to_text_renders_empty(tbl, mode) ==
  IF tbl = None THEN EmptyStr
  ELSE LET actual == actual_mode(tbl[1], mode)
       IN IF actual = "ascii"
          THEN (IF mode = "ascii"
                THEN Join(ascii_lines(tbl[1], FullBorders), <<NL>>)
                ELSE table_to_ascii(tbl[1], None))
          ELSE IF actual = "tabs" THEN table_to_tabs(tbl[1])
          ELSE table_to_plain(tbl[1])

\* mutant: a mode that is not recognised is rendered like tabs
table_to_text_unknown_is_tabs(tbl, mode) ==
  IF tbl = None THEN EmptyStr
  ELSE IF tbl[1].tr = <<>> THEN EmptyStr
  ELSE LET actual == actual_mode(tbl[1], mode)
       IN IF actual = "ascii"
          THEN (IF mode = "ascii"
                THEN table_to_ascii(tbl[1], Some(FullBorders))
                ELSE table_to_ascii(tbl[1], None))
          ELSE IF actual = "plain" THEN table_to_plain(tbl[1])
          ELSE table_to_tabs(tbl[1])

\* tbl is optional (Table | None)
table_to_text(tbl, mode) ==
  IF tbl = None THEN EmptyStr
  ELSE IF tbl[1].tr = <<>> THEN EmptyStr
  ELSE LET actual == actual_mode(tbl[1], mode)
       IN IF actual = "ascii"
          THEN (IF mode = "ascii"
                THEN table_to_ascii(tbl[1], Some(FullBorders))
                ELSE table_to_ascii(tbl[1], None))
          ELSE IF actual = "tabs" THEN table_to_tabs(tbl[1])
          ELSE table_to_plain(tbl[1])

(***************************************************************************)
(* TableToTextConverter                                                    *)
(***************************************************************************)
\* __init__(mode): the object, its one attribute set
TableToTextConverter(mode) == [mode |-> mode]

\* mutant: convert keeps the mode that auto resolved to for the next call
convert_keeps_actual_mode(self, tbl) ==
  [ret |-> table_to_text(tbl, self.mode),
   self |-> IF tbl = None \/ self.mode # "auto" THEN self
            ELSE IF tbl[1].tr = <<>> THEN self
            ELSE [self EXCEPT !.mode = actual_mode(tbl[1], self.mode)]]

\* convert(self, table): what it returns, and self after the call
convert(self, tbl) ==
  [ret |-> table_to_text(tbl, self.mode), self |-> self]

(***************************************************************************)
(* Numbering resolution.  The engine is specified in section 4.3 of the    *)
(* specification: counters maps (numId, ilvl) to the current value of a    *)
(* level and has no entry for a level that has not been used; a level that *)
(* is restarted loses its entry, so that its next use is a first use.      *)
(***************************************************************************)
Digits == <<"0", "1", "2", "3", "4", "5", "6", "7", "8", "9">>

LowerLetters ==
  <<"a", "b", "c", "d", "e", "f", "g", "h", "i", "j", "k", "l", "m",
    "n", "o", "p", "q", "r", "s", "t", "u", "v", "w", "x", "y", "z">>

UpperLetters ==
  <<"A", "B", "C", "D", "E", "F", "G", "H", "I", "J", "K", "L", "M",
    "N", "O", "P", "Q", "R", "S", "T", "U", "V", "W", "X", "Y", "Z">>

\* the values and symbols of the Roman numeral algorithm, largest first
RomanValues == <<1000, 900, 500, 400, 100, 90, 50, 40, 10, 9, 5, 4, 1>>

UpperRomanSymbols ==
  <<<<"M">>, <<"C", "M">>, <<"D">>, <<"C", "D">>, <<"C">>, <<"X", "C">>, <<"L">>,
    <<"X", "L">>, <<"X">>, <<"I", "X">>, <<"V">>, <<"I", "V">>, <<"I">>>>

LowerRomanSymbols ==
  <<<<"m">>, <<"c", "m">>, <<"d">>, <<"c", "d">>, <<"c">>, <<"x", "c">>, <<"l">>,
    <<"x", "l">>, <<"x">>, <<"i", "x">>, <<"v">>, <<"i", "v">>, <<"i">>>>

RECURSIVE to_decimal(_)
\* decimal: the digits of n
to_decimal(n) ==
  IF n < 10 THEN <<Digits[n + 1]>>
  ELSE to_decimal(n \div 10) \o <<Digits[(n % 10) + 1]>>

RECURSIVE to_roman(_, _, _)
\* upperRoman, lowerRoman: the standard algorithm, from the symbol at k on
to_roman(n, symbols, k) ==
  IF n <= 0 \/ k > Len(RomanValues) THEN EmptyStr
  ELSE IF n >= RomanValues[k]
       THEN symbols[k] \o to_roman(n - RomanValues[k], symbols, k)
       ELSE to_roman(n, symbols, k + 1)

RECURSIVE to_letters(_, _)
\* upperLetter, lowerLetter: the base-26 sequence a..z, aa..az, ...
to_letters(n, letters) ==
  IF n <= 0 THEN EmptyStr
  ELSE to_letters((n - 1) \div 26, letters) \o <<letters[((n - 1) % 26) + 1]>>

\* step 3: the value of a counter in the format of its level
format_counter(value, format) ==
  IF format = "decimal" THEN to_decimal(value)
  ELSE IF format = "upperRoman" THEN to_roman(value, UpperRomanSymbols, 1)
  ELSE IF format = "lowerRoman" THEN to_roman(value, LowerRomanSymbols, 1)
  ELSE IF format = "upperLetter" THEN to_letters(value, UpperLetters)
  ELSE IF format = "lowerLetter" THEN to_letters(value, LowerLetters)
  ELSE EmptyStr

\* the number a digit character stands for
DigitValue(ch) == CHOOSE d \in 0..9 : Digits[d + 1] = ch

RECURSIVE render_template(_, _, _, _)
\* step 4: the text template with every %k replaced by the current value of
\* the counter of level k-1 of num_id, in that level's format
render_template(text, levels, num_id, counts) ==
  IF text = EmptyStr THEN EmptyStr
  ELSE IF Head(text) = "%" /\ Len(text) >= 2 /\ text[2] \in {Digits[d] : d \in 2..10}
       THEN LET lvl == DigitValue(text[2]) - 1
                shown == IF lvl < Len(levels) /\ <<num_id, lvl>> \in DOMAIN counts
                         THEN format_counter(counts[<<num_id, lvl>>], levels[lvl + 1].format)
                         ELSE EmptyStr
            IN shown \o render_template(SubSeq(text, 3, Len(text)), levels, num_id, counts)
       ELSE <<Head(text)>>
            \o render_template(Tail(text), levels, num_id, counts)

\* a paragraph that is no list item: no marker
NonList == [marker_text |-> None]

\* mutant: the deeper levels keep their counts
advance_counters_no_restart(counts, levels, num_id, ilvl) ==
  LET key == <<num_id, ilvl>>
      value == IF key \in DOMAIN counts THEN counts[key] + 1
               ELSE levels[ilvl + 1].start
      keep == DOMAIN counts \cup {key}
  IN [k \in keep |-> IF k = key THEN value ELSE counts[k]]

\* mutant: the counters of the other lists are dropped as well
advance_counters_forgets_other_lists(counts, levels, num_id, ilvl) ==
  LET key == <<num_id, ilvl>>
      value == IF key \in DOMAIN counts THEN counts[key] + 1
               ELSE levels[ilvl + 1].start
      keep == {k \in DOMAIN counts : k[1] = num_id /\ k[2] <= ilvl} \cup {key}
  IN [k \in keep |-> IF k = key THEN value ELSE counts[k]]

\* steps 1 and 2: the counter of (num_id, ilvl) is set to the start value of
\* its level on its first use and incremented otherwise; the counters of
\* the deeper levels of num_id are restarted
advance_counters(counts, levels, num_id, ilvl) ==
  LET key == <<num_id, ilvl>>
      value == IF key \in DOMAIN counts THEN counts[key] + 1
               ELSE levels[ilvl + 1].start
      keep == {k \in DOMAIN counts : ~(k[1] = num_id /\ k[2] > ilvl)} \cup {key}
  IN [k \in keep |-> IF k = key THEN value ELSE counts[k]]

\* mutant: a numId that the catalog does not have ends the running lists
resolve_numbering_unknown_clears(numbering_ref, catalog, counts) ==
  IF numbering_ref = None THEN [result |-> NonList, counters |-> counts]
  ELSE LET num_id == numbering_ref[1][1]
           ilvl == numbering_ref[1][2]
       IN IF num_id \notin DOMAIN catalog
          THEN [result |-> NonList, counters |-> <<>>]
          ELSE IF ilvl >= Len(catalog[num_id])
          THEN [result |-> NonList, counters |-> counts]
          ELSE LET levels == catalog[num_id]
                   after == advance_counters(counts, levels, num_id, ilvl)
               IN [result |-> [marker_text |->
                                 Some(render_template(levels[ilvl + 1].text, levels,
                                                      num_id, after))],
                   counters |-> after]

\* resolve_numbering(paragraph, catalog, counters): the NumberingResult and
\* the counters after it.  numbering_ref is the optional (numId, ilvl) of
\* the paragraph.
resolve_numbering(numbering_ref, catalog, counts) ==
  IF numbering_ref = None THEN [result |-> NonList, counters |-> counts]
  ELSE LET num_id == numbering_ref[1][1]
           ilvl == numbering_ref[1][2]
       IN IF num_id \notin DOMAIN catalog
          THEN [result |-> NonList, counters |-> counts]
          ELSE IF ilvl >= Len(catalog[num_id])
          THEN [result |-> NonList, counters |-> counts]
          ELSE LET levels == catalog[num_id]
                   after == advance_counters(counts, levels, num_id, ilvl)
               IN [result |-> [marker_text |->
                                 Some(render_template(levels[ilvl + 1].text, levels,
                                                      num_id, after))],
                   counters |-> after]

(***************************************************************************)
(* Input tables.  A table is                                               *)
(*   [tbl_pr : optional [tbl_borders : optional border set], tr : rows],   *)
(* a row is [tc : cells], a cell is                                        *)
(*   [tc_pr : optional [tc_borders : optional border set,                  *)
(*                      v_merge : optional "restart" or "continue"],       *)
(*    content : items],                                                    *)
(* an item is a Paragraph with its rendered text or a nested Table; a      *)
(* border is optional, and so is its val.  v_merge is the vertical merge   *)
(* of the cell: "restart" on the cell a span starts in, "continue" on the  *)
(* cells below that the span covers.                                       *)
(***************************************************************************)
Paragraph(text) == [kind |-> "Paragraph", text |-> text]

NestedTable == [kind |-> "Table", text |-> EmptyStr]

Border(val) == Some([val |-> Some(val)])

BorderNoVal == Some([val |-> None])

\* border sets (tblBorders, tcBorders) with nothing declared
NoTableBorders ==
  [top |-> None, bottom |-> None, left |-> None, right |-> None,
   inside_h |-> None, inside_v |-> None]

NoCellBorders == [top |-> None, bottom |-> None, left |-> None, right |-> None]

TableEdges == {"top", "bottom", "left", "right", "inside_h", "inside_v"}

CellEdges == {"top", "bottom", "left", "right"}

\* the three ways properties without a declared border arrive from the parser
AbsentForms == {"no_pr", "no_borders", "empty_borders"}

TblPr(form) ==
  IF form = "no_pr" THEN None
  ELSE IF form = "no_borders" THEN Some([tbl_borders |-> None])
  ELSE Some([tbl_borders |-> Some(NoTableBorders)])

TcPr(form) ==
  IF form = "no_pr" THEN None
  ELSE IF form = "no_borders" THEN Some([tc_borders |-> None, v_merge |-> None])
  ELSE Some([tc_borders |-> Some(NoCellBorders), v_merge |-> None])

\* the tables of at most maxRows rows of at most maxCols cells each, rows of
\* different lengths included, no border declared
BaseTables(maxRows, maxCols, contents, forms) ==
  UNION {
    LET Cells == {[tc_pr |-> TcPr(f), content |-> c] : c \in contents}
        Rows  == UNION {{[tc |-> cs] : cs \in [1..m -> Cells]} : m \in 0..maxCols}
    IN UNION {{[tbl_pr |-> TblPr(f), tr |-> rs] : rs \in [1..n -> Rows]} : n \in 0..maxRows}
    : f \in forms}

\* the same with every row of the same length, at least 1
RectTables(maxRows, maxCols, contents, forms) ==
  UNION {
    LET Cells == {[tc_pr |-> TcPr(f), content |-> c] : c \in contents}
        Rows(m) == {[tc |-> cs] : cs \in [1..m -> Cells]}
    IN UNION {UNION {{[tbl_pr |-> TblPr(f), tr |-> rs] : rs \in [1..n -> Rows(m)]}
                     : n \in 1..maxRows} : m \in 1..maxCols}
    : f \in forms}

\* where a border can be declared: <<0, 0, edge>> on the table,
\* <<row, col, edge>> (1-based) on a cell
Sites(tbl) ==
  {<<0, 0, e>> : e \in TableEdges}
  \cup UNION {UNION {{<<r, c, e>> : e \in CellEdges}
                     : c \in 1..Len(tbl.tr[r].tc)} : r \in 1..Len(tbl.tr)}

\* tbl with border b declared at site
Declare(tbl, site, b) ==
  IF site[1] = 0
  THEN LET old == IF tbl.tbl_pr # None /\ tbl.tbl_pr[1].tbl_borders # None
                  THEN tbl.tbl_pr[1].tbl_borders[1] ELSE NoTableBorders
       IN [tbl EXCEPT !.tbl_pr = Some([tbl_borders |-> Some([old EXCEPT ![site[3]] = b])])]
  ELSE LET cell == tbl.tr[site[1]].tc[site[2]]
           old == IF cell.tc_pr # None /\ cell.tc_pr[1].tc_borders # None
                  THEN cell.tc_pr[1].tc_borders[1] ELSE NoCellBorders
           merge == IF cell.tc_pr # None THEN cell.tc_pr[1].v_merge ELSE None
       IN [tbl EXCEPT !.tr[site[1]].tc[site[2]].tc_pr =
                         Some([tc_borders |-> Some([old EXCEPT ![site[3]] = b]),
                               v_merge |-> merge])]

RECURSIVE DeclareAll(_, _)
\* tbl with the declarations <<site, border>> of decls made in order
DeclareAll(tbl, decls) ==
  IF decls = <<>> THEN tbl
  ELSE DeclareAll(Declare(tbl, Head(decls)[1], Head(decls)[2]), Tail(decls))

\* the lists of at most k declarations on tbl with borders from borders
Declarations(tbl, borders, k) ==
  UNION {[1..n -> Sites(tbl) \X borders] : n \in 0..k}

(***************************************************************************)
(* The state: the table handed to the renderer, the call made on it and    *)
(* what the call returned; the TableToTextConverter object, once there is  *)
(* one, and the log of the calls made since it was constructed; the        *)
(* numbering counters of a render pass (whose log has its paragraphs); the *)
(* styles table and the walk along a basedOn chain of it.  The             *)
(* module-level functions keep no state, so where no converter exists a    *)
(* behaviour is one call on one input: a second call on the same table     *)
(* reaches no state the first one does not.                                *)
(***************************************************************************)
NotCalled == [fn |-> "none"]

(***************************************************************************)
(* ASCII rendering with a given BorderInfo: SpecAscii.                     *)
(***************************************************************************)
MultiParagraph ==
  <<Paragraph(<<"A", "B">>), NestedTable, Paragraph(EmptyStr), Paragraph(<<"C">>)>>

\* the 1-row table with cells "A1", "A2"
LiteralTable ==
  [tbl_pr |-> None,
   tr |-> <<[tc |-> <<[tc_pr |-> None, content |-> <<Paragraph(<<"A", "1">>)>>],
                      [tc_pr |-> None, content |-> <<Paragraph(<<"A", "2">>)>>]>>]>>]

\* the number of cells of tbl
CellCount(tbl) == Sum([r \in 1..Len(tbl.tr) |-> Len(tbl.tr[r].tc)])

AsciiTables ==
  {tbl \in BaseTables(MaxRows, MaxCols, {<<>>, MultiParagraph}, {"no_pr"})
           \cup RectTables(MaxRows, MaxCols,
                           {<<Paragraph(<<"A">>)>>, <<Paragraph(<<"B", "C", "D">>)>>},
                           {"no_pr"}) :
     CellCount(tbl) <= MaxCells}
  \cup {LiteralTable}

InitAscii ==
  /\ table \in {Some(t) : t \in AsciiTables}
  /\ call = NotCalled
  /\ ret = None
  /\ converter = None
  /\ log = <<>>
  /\ counters = <<>>
  /\ styles = <<>>
  /\ walk = None

\* table_to_ascii(table, border_info) with a BorderInfo given
CallTableToAscii ==
  \E b \in AllBorderInfo :
    /\ call = NotCalled
    /\ table # None
    /\ call' = [fn |-> "table_to_ascii", border_info |-> Some(b)]
    /\ ret' = table_to_ascii(table[1], Some(b))
    /\ UNCHANGED <<table, converter, log, counters, styles, walk>>

\* table_to_ascii(table): the borders are detected
CallTableToAsciiDetect ==
  /\ call = NotCalled
  /\ table # None
  /\ call' = [fn |-> "table_to_ascii", border_info |-> None]
  /\ ret' = table_to_ascii(table[1], None)
  /\ UNCHANGED <<table, converter, log, counters, styles, walk>>

NextAscii == CallTableToAscii \/ CallTableToAsciiDetect

SpecAscii == InitAscii /\ [][NextAscii]_vars

(***************************************************************************)
(* What the claims read off an output string.                              *)
(***************************************************************************)
RECURSIVE SplitLines(_)
\* the lines of s: the runs between its newline characters
SplitLines(s) ==
  IF \A i \in 1..Len(s) : s[i] # NL THEN <<s>>
  ELSE LET k == CHOOSE i \in 1..Len(s) : s[i] = NL /\ \A j \in 1..(i - 1) : s[j] # NL
       IN <<SubSeq(s, 1, k - 1)>> \o SplitLines(SubSeq(s, k + 1, Len(s)))

SetMax(S) == CHOOSE m \in S : \A x \in S : m >= x

\* the one-line text of the cell at row r, column c (1-based); "" where the
\* row has no such cell
CellLine(tbl, r, c) ==
  IF c <= Len(tbl.tr[r].tc)
  THEN LET t == cell_to_text(Some(tbl.tr[r].tc[c]))
       IN [i \in 1..Len(t) |-> IF t[i] = NL THEN SP ELSE t[i]]
  ELSE EmptyStr

\* The layout of the box of tbl:
\*   n      the number of columns, the largest cell count of a row
\*   text   text[r][c], the one-line text of the cell at row r, column c
\*   w      w[c], the width of column c: the longest text in it, at least 1
\*   start  start[c], the position of the first character of column c's
\*          segment in a line (start[n + 1] - 1 is the length of a line)
\*   len    the length of every line
Layout(tbl) ==
  LET R == Len(tbl.tr)
      n == SetMax({0} \cup {Len(tbl.tr[r].tc) : r \in 1..R})
      text == List([r \in 1..R |-> List([c \in 1..n |-> List(CellLine(tbl, r, c))])])
      w == List([c \in 1..n |-> SetMax({1} \cup {Len(text[r][c]) : r \in 1..R})])
      start == List([c \in 1..(n + 1) |-> 2 + Sum([j \in 1..(c - 1) |-> w[j] + 3])])
  IN [n |-> n, text |-> text, w |-> w, start |-> start,
      len |-> IF n = 0 THEN 2 ELSE start[n + 1] - 1]

NumCols(tbl) == Layout(tbl).n

\* line is the horizontal rule of the box lay under b
IsRuleLine(line, lay, b) ==
  /\ Len(line) = lay.len
  /\ \A p \in 1..Len(line) :
       line[p] = IF p = 1 THEN (IF b.left THEN "+" ELSE "-")
                 ELSE IF p = lay.len THEN (IF b.right THEN "+" ELSE "-")
                 ELSE IF b.inside_v /\ \E c \in 2..lay.n : p = lay.start[c] - 1 THEN "+"
                 ELSE "-"

\* line is the data line of row r of the box lay under b
IsDataLine(line, lay, r, b) ==
  /\ Len(line) = lay.len
  /\ line[1] = (IF b.left THEN "|" ELSE SP)
  /\ line[Len(line)] = (IF b.right THEN "|" ELSE SP)
  /\ \A c \in 1..lay.n :
       LET s == lay.start[c]
           w == lay.w[c]
           t == lay.text[r][c]
       IN /\ line[s] = SP
          /\ line[s + w + 1] = SP
          /\ \A o \in 1..w : line[s + o] = (IF o <= Len(t) THEN t[o] ELSE SP)
          /\ c < lay.n => line[s + w + 2] = (IF b.inside_v THEN "|" ELSE SP)

\* a table_to_ascii call with a BorderInfo given, on a table with rows
AsciiCall ==
  /\ call.fn = "table_to_ascii"
  /\ call.border_info # None
  /\ table[1].tr # <<>>

\* the same with the BorderInfo b
AsciiCallWith(b) == AsciiCall /\ call.border_info[1] = b

\* C5: with all six border flags true, table_to_ascii of a table with R >= 1
\* rows and n >= 1 columns returns 2R+1 lines, rules and data lines
\* alternating from a rule to a rule; a rule is "+", the runs of w_i + 2
\* dashes joined by "+", "+"; a data line is "|", the cells " " + text
\* left-justified to w_i + " " joined by "|", "|".  The table with cells
\* "A1", "A2" gives "+----+----+", "| A1 | A2 |", "+----+----+".
C5_FullBox ==
  (AsciiCallWith(FullBorders) /\ NumCols(table[1]) >= 1) =>
    LET tbl == table[1]
        lay == Layout(tbl)
        R == Len(tbl.tr)
        lines == SplitLines(ret)
    IN /\ Len(lines) = 2 * R + 1
       /\ \A k \in 1..Len(lines) :
            IF k % 2 = 1 THEN IsRuleLine(lines[k], lay, FullBorders)
            ELSE IsDataLine(lines[k], lay, k \div 2, FullBorders)
       /\ tbl = LiteralTable =>
            ret = <<"+", "-", "-", "-", "-", "+", "-", "-", "-", "-", "+", NL,
                    "|", " ", "A", "1", " ", "|", " ", "A", "2", " ", "|", NL,
                    "+", "-", "-", "-", "-", "+", "-", "-", "-", "-", "+">>

\* the full box of the literal table, and of a table of two rows of
\* different lengths, has been rendered
C5_Witness ==
  /\ call.fn = "table_to_ascii"
  /\ call.border_info = Some(FullBorders)
  /\ \/ table[1] = LiteralTable
     \/ /\ Len(table[1].tr) = 2
        /\ Len(table[1].tr[1].tc) = 2
        /\ Len(table[1].tr[2].tc) = 1
        /\ Len(SplitLines(ret)) = 5

\* the kinds of the lines of the box under b, in order: 0 for a rule, r for
\* the data line of row r
RECURSIVE LineKinds(_, _, _)
LineKinds(R, b, r) ==
  IF r > R THEN (IF b.bottom THEN <<0>> ELSE <<>>)
  ELSE (IF r = 1 /\ b.top THEN <<0>> ELSE <<>>)
       \o (IF r > 1 /\ b.inside_h THEN <<0>> ELSE <<>>)
       \o <<r>> \o LineKinds(R, b, r + 1)

Bit(x) == IF x THEN 1 ELSE 0

\* C10: table_to_ascii with any BorderInfo b on a table of R >= 1 rows emits
\* a rule before the first data row iff b.top, after the last iff b.bottom,
\* between two consecutive data rows iff b.inside_h, the data rows in table
\* order: R + [b.top] + [b.bottom] + (R-1)*[b.inside_h] lines.
C10_RulePlacement ==
  AsciiCall =>
    LET tbl == table[1]
        b == call.border_info[1]
        R == Len(tbl.tr)
        lines == SplitLines(ret)
        kinds == LineKinds(R, b, 1)
        lay == Layout(tbl)
    IN /\ Len(lines) = R + Bit(b.top) + Bit(b.bottom) + (R - 1) * Bit(b.inside_h)
       /\ Len(lines) = Len(kinds)
       /\ \A k \in 1..Len(lines) :
            IF kinds[k] = 0 THEN IsRuleLine(lines[k], lay, b)
            ELSE IsDataLine(lines[k], lay, kinds[k], b)

\* a two-row table rendered with a top rule and an inside rule and no
\* bottom rule: four lines
C10_Witness ==
  /\ call.fn = "table_to_ascii"
  /\ call.border_info # None
  /\ call.border_info[1].top /\ call.border_info[1].inside_h
  /\ ~call.border_info[1].bottom
  /\ Len(table[1].tr) = 2
  /\ Len(SplitLines(ret)) = 4

\* the cell at row r, column c as a data line shows it: a space, the text
\* left-justified to the width of the column, a space
ShownCell(lay, r, c) ==
  <<SP>> \o lay.text[r][c] \o [i \in 1..(lay.w[c] - Len(lay.text[r][c])) |-> SP] \o <<SP>>

RECURSIVE ShownCellsFrom(_, _, _, _)
\* the shown cells of row r from column c on, sep between two of them
ShownCellsFrom(lay, r, c, sep) ==
  IF c > lay.n THEN EmptyStr
  ELSE ShownCell(lay, r, c)
       \o (IF c < lay.n THEN <<sep>> ELSE EmptyStr)
       \o ShownCellsFrom(lay, r, c + 1, sep)

\* C11: every data line of table_to_ascii is a left edge character ("|" if
\* left, else a space), the cells each as a space + the text left-justified
\* to the column width + a space, joined by "|" if inside_v and by a space
\* otherwise, and a right edge character ("|" if right, else a space).
C11_DataLines ==
  AsciiCall =>
    LET tbl == table[1]
        b == call.border_info[1]
        lay == Layout(tbl)
        lines == SplitLines(ret)
        kinds == LineKinds(Len(tbl.tr), b, 1)
    IN \A k \in 1..Len(kinds) : kinds[k] # 0 =>
         lines[k] = <<IF b.left THEN "|" ELSE SP>>
                    \o ShownCellsFrom(lay, kinds[k], 1, IF b.inside_v THEN "|" ELSE SP)
                    \o <<IF b.right THEN "|" ELSE SP>>

\* a table of two columns has been rendered with the left edge alone: a
\* data line pads a text shorter than its column and joins with a space
C11_Witness ==
  /\ AsciiCall
  /\ call.border_info[1] = BorderInfo(FALSE, FALSE, TRUE, FALSE, FALSE, FALSE)
  /\ NumCols(table[1]) = 2
  /\ Len(table[1].tr) = 2
  /\ ret = <<"|", SP, "A", SP, SP, SP, SP, SP, "A", SP, SP, NL,
             "|", SP, "B", "C", "D", SP, SP, SP, "A", SP, SP>>

RECURSIVE SplitOn(_, _)
\* the runs of s between the occurrences of the character ch
SplitOn(s, ch) ==
  IF \A i \in 1..Len(s) : s[i] # ch THEN <<s>>
  ELSE LET k == CHOOSE i \in 1..Len(s) : s[i] = ch /\ \A j \in 1..(i - 1) : s[j] # ch
       IN <<SubSeq(s, 1, k - 1)>> \o SplitOn(SubSeq(s, k + 1, Len(s)), ch)

\* s is a run of n dashes
IsDashes(s, n) == Len(s) = n /\ \A i \in 1..Len(s) : s[i] = "-"

\* C12: between its two end characters a horizontal rule of table_to_ascii
\* is, when inside_v is set, one run of dashes per column (of the column's
\* width + 2) with "+" between two runs, and when inside_v is not set one
\* unbroken run of sum(col_widths) + 3*(ncols-1) + 2 dashes; a table without
\* columns, for which that number is negative, has an empty run.
C12_RuleSegmentation ==
  AsciiCall =>
    LET tbl == table[1]
        b == call.border_info[1]
        lay == Layout(tbl)
        lines == SplitLines(ret)
        kinds == LineKinds(Len(tbl.tr), b, 1)
    IN \A k \in 1..Len(kinds) : kinds[k] = 0 =>
         LET inner == SubSeq(lines[k], 2, Len(lines[k]) - 1)
             full == Sum(lay.w) + 3 * (lay.n - 1) + 2
         IN /\ Len(lines[k]) >= 2
            /\ IF b.inside_v
               THEN IF lay.n = 0 THEN inner = EmptyStr
                    ELSE LET runs == SplitOn(inner, "+")
                         IN /\ Len(runs) = lay.n
                            /\ \A c \in 1..lay.n : IsDashes(runs[c], lay.w[c] + 2)
               ELSE IsDashes(inner, IF full < 0 THEN 0 ELSE full)

\* the table with cells "A1", "A2" has been rendered with the top and left
\* borders and no inside_v: the rule is "+" and one run of 10 dashes
C12_Witness ==
  /\ AsciiCall
  /\ table[1] = LiteralTable
  /\ call.border_info[1] = BorderInfo(TRUE, FALSE, TRUE, FALSE, FALSE, FALSE)
  /\ SplitLines(ret)[1] = <<"+", "-", "-", "-", "-", "-", "-", "-", "-", "-", "-">>

\* the width the claim gives column c (1-based): the longest one-line text
\* of a cell at index c in any row, at least 1
ColumnWidth(tbl, c) ==
  Max(1, SetMax({Len(CellLine(tbl, r, c)) : r \in 1..Len(tbl.tr)}))

\* the number of newline characters of s
Newlines(s) == Cardinality({i \in 1..Len(s) : s[i] = NL})

\* C13: in table_to_ascii the width of column c is max(1, the longest text
\* of a cell at index c in any row), a text measured and rendered with each
\* of its newlines replaced by one space: in every data line the text of
\* the cell at column c starts after the widths of the columns before it
\* (each with its 3 characters of padding and separator), fills the width
\* of its column with spaces, and is followed by a space; no newline of a
\* cell reaches the output, every data row is exactly one line.
C13_ColumnWidths ==
  AsciiCall =>
    LET tbl == table[1]
        b == call.border_info[1]
        n == SetMax({Len(tbl.tr[r].tc) : r \in 1..Len(tbl.tr)})
        W == List([c \in 1..n |-> ColumnWidth(tbl, c)])
        lines == SplitLines(ret)
        kinds == LineKinds(Len(tbl.tr), b, 1)
    IN /\ Newlines(ret) = Len(kinds) - 1
       /\ Len(lines) = Len(kinds)
       /\ \A k \in 1..Len(kinds) : kinds[k] # 0 =>
            /\ Len(lines[k]) = 2 + Sum(W) + 2 * n + (IF n = 0 THEN 0 ELSE n - 1)
            /\ \A c \in 1..n :
                 LET before == 2 + Sum(SubSeq(W, 1, c - 1)) + 3 * (c - 1)
                     text == CellLine(tbl, kinds[k], c)
                 IN /\ \A i \in 1..Len(text) : text[i] # NL
                    /\ SubSeq(lines[k], before + 1, before + W[c]) =
                         text \o [i \in 1..(W[c] - Len(text)) |-> SP]

\* a table of two rows with a cell of several paragraphs above a cell
\* without text has been rendered: the column is 4 wide, the newline of the
\* upper cell is a space, and the output has two lines
C13_Witness ==
  /\ AsciiCall
  /\ call.border_info[1] = BorderInfoDefault
  /\ Len(table[1].tr) = 2
  /\ Len(table[1].tr[1].tc) = 1 /\ Len(table[1].tr[2].tc) = 1
  /\ cell_to_text(Some(table[1].tr[1].tc[1])) = <<"A", "B", NL, "C">>
  /\ ret = <<SP, SP, "A", "B", SP, "C", SP, SP, NL, SP, SP, SP, SP, SP, SP, SP, SP>>

\* C24: for every table with at least one row and every combination of the
\* six BorderInfo flags, all lines of the table_to_ascii output, rules and
\* data lines alike, have the same length; also when every row has zero
\* cells, where the computed length of the unbroken rule's run is negative:
\* every line is then its two end characters.
C24_LinesSameLength ==
  AsciiCall =>
    LET lines == SplitLines(ret)
        cells == CellCount(table[1])
    IN /\ \A i, j \in 1..Len(lines) : Len(lines[i]) = Len(lines[j])
       /\ cells = 0 => \A i \in 1..Len(lines) : Len(lines[i]) = 2

\* a table of two rows without cells has been rendered with the top, left
\* and right borders and no inside_v: a rule "++" and two data lines "||"
C24_Witness ==
  /\ AsciiCall
  /\ call.border_info[1] = BorderInfo(TRUE, FALSE, TRUE, TRUE, FALSE, FALSE)
  /\ Len(table[1].tr) = 2
  /\ CellCount(table[1]) = 0
  /\ ret = <<"+", "+", NL, "|", "|", NL, "|", "|">>

\* the first and the last character of every line of lines
LineEnds(lines) ==
  [k \in 1..Len(lines) |->
     IF lines[k] = EmptyStr THEN <<>> ELSE <<lines[k][1], lines[k][Len(lines[k])]>>]

\* C26: in table_to_ascii every horizontal rule starts with "+" if the left
\* flag is set and with "-" otherwise, and ends with "+" if the right flag
\* is set and with "-" otherwise, whatever inside_v is: the same call with
\* inside_v the other way has the same line ends.  A rule has "+" at an end
\* exactly where the data lines have "|" at that end.
C26_RuleEnds ==
  AsciiCall =>
    LET tbl == table[1]
        b == call.border_info[1]
        lines == SplitLines(ret)
        kinds == LineKinds(Len(tbl.tr), b, 1)
        other == SplitLines(table_to_ascii(tbl, Some([b EXCEPT !.inside_v = ~b.inside_v])))
    IN /\ Len(lines) = Len(kinds)
       /\ \A k \in 1..Len(kinds) : kinds[k] = 0 =>
            /\ Len(lines[k]) >= 2
            /\ lines[k][1] = (IF b.left THEN "+" ELSE "-")
            /\ lines[k][Len(lines[k])] = (IF b.right THEN "+" ELSE "-")
            /\ \A d \in 1..Len(kinds) : kinds[d] # 0 =>
                 /\ (lines[k][1] = "+") = (lines[d][1] = "|")
                 /\ (lines[k][Len(lines[k])] = "+") = (lines[d][Len(lines[d])] = "|")
       /\ LineEnds(other) = LineEnds(lines)

\* the table with cells "A1", "A2" has been rendered with the top and right
\* borders and inside_v, without the left border: the rule starts with a
\* dash and ends with "+", the data line starts with a space and ends
\* with "|"
C26_Witness ==
  /\ AsciiCall
  /\ table[1] = LiteralTable
  /\ call.border_info[1] = BorderInfo(TRUE, FALSE, FALSE, TRUE, FALSE, TRUE)
  /\ ret = <<"-", "-", "-", "-", "-", "+", "-", "-", "-", "-", "+", NL,
             SP, SP, "A", "1", SP, "|", SP, "A", "2", SP, "|">>

(***************************************************************************)
(* The separated modes and the row extraction: SpecRows.  Borders play no  *)
(* part in them; the tables are those of SpecAscii.                        *)
(***************************************************************************)
\* the separators handed to row_to_text: its default, the one of
\* table_to_plain, and one of a caller
Separators == {<<TAB>>, <<SP, SP>>, <<",", SP>>}

\* the rows a caller can hand to row_to_text: None, or a row of the table
RowArgs == {None} \cup {Some(table[1].tr[r]) : r \in 1..Len(table[1].tr)}

\* table_to_tabs(table)
CallTableToTabs ==
  /\ call = NotCalled
  /\ table # None
  /\ call' = [fn |-> "table_to_tabs"]
  /\ ret' = table_to_tabs(table[1])
  /\ UNCHANGED <<table, converter, log, counters, styles, walk>>

\* table_to_plain(table)
CallTableToPlain ==
  /\ call = NotCalled
  /\ table # None
  /\ call' = [fn |-> "table_to_plain"]
  /\ ret' = table_to_plain(table[1])
  /\ UNCHANGED <<table, converter, log, counters, styles, walk>>

\* row_to_text(row, separator)
CallRowToText ==
  \E row \in RowArgs, separator \in Separators :
    /\ call = NotCalled
    /\ call' = [fn |-> "row_to_text", row |-> row, separator |-> separator]
    /\ ret' = row_to_text(row, separator)
    /\ UNCHANGED <<table, converter, log, counters, styles, walk>>

NextRows == CallTableToTabs \/ CallTableToPlain \/ CallRowToText

SpecRows == InitAscii /\ [][NextRows]_vars

RECURSIVE Interleave(_, _)
\* the strings of parts in order, sep between two of them
Interleave(parts, sep) ==
  IF Len(parts) = 0 THEN EmptyStr
  ELSE IF Len(parts) = 1 THEN parts[1]
  ELSE Interleave(SubSeq(parts, 1, Len(parts) - 1), sep) \o sep \o parts[Len(parts)]

\* the cell_to_text results of the cells of row, in cell order
CellResults(row) == [c \in 1..Len(row.tc) |-> cell_to_text(Some(row.tc[c]))]

\* the rows of tbl in table order, each its cell results with sep between
\* them, a newline between two rows
SeparatedText(tbl, sep) ==
  Interleave([r \in 1..Len(tbl.tr) |-> Interleave(CellResults(tbl.tr[r]), sep)], <<NL>>)

\* C14: for a table with at least one row, table_to_tabs returns the rows in
\* table order joined by a newline, each row its cells' cell_to_text results
\* in cell order joined by a tab; table_to_plain returns the same with two
\* spaces between the cells; row_to_text(row, sep) is the cell_to_text
\* results of the row's cells joined with sep.
C14_SeparatedModes ==
  /\ (call.fn = "table_to_tabs" /\ table[1].tr # <<>>) =>
       ret = SeparatedText(table[1], <<TAB>>)
  /\ (call.fn = "table_to_plain" /\ table[1].tr # <<>>) =>
       ret = SeparatedText(table[1], <<SP, SP>>)
  /\ (call.fn = "row_to_text" /\ call.row # None) =>
       ret = Interleave(CellResults(call.row[1]), call.separator)

\* table_to_tabs has rendered a table of two rows, the first a cell without
\* text before a cell of several paragraphs, the second a single cell
C14_Witness ==
  /\ call.fn = "table_to_tabs"
  /\ Len(table[1].tr) = 2
  /\ Len(table[1].tr[1].tc) = 2 /\ Len(table[1].tr[2].tc) = 1
  /\ ret = <<TAB, "A", "B", NL, "C", NL, "A", "B", NL, "C">>

(***************************************************************************)
(* Border detection: SpecBorders.  The tables carry no text; at most       *)
(* MaxBorderDeclared borders are declared on the table or on its cells.    *)
(***************************************************************************)
DeclaredBorders ==
  {BorderNoVal, Border("none"), Border("nil"), Border("single"), Border("double")}

BorderBaseTables == BaseTables(MaxBorderRows, MaxBorderCols, {<<>>}, AbsentForms)

InitBorders ==
  /\ \E base \in BorderBaseTables :
       \E decls \in Declarations(base, DeclaredBorders, MaxBorderDeclared) :
         table = Some(DeclareAll(base, decls))
  /\ call = NotCalled
  /\ ret = None
  /\ converter = None
  /\ log = <<>>
  /\ counters = <<>>
  /\ styles = <<>>
  /\ walk = None

CallDetectBorders ==
  /\ call = NotCalled
  /\ table # None
  /\ call' = [fn |-> "detect_borders"]
  /\ ret' = detect_borders(table[1])
  /\ UNCHANGED <<table, converter, log, counters, styles, walk>>

CallHasVisibleBorders ==
  /\ call = NotCalled
  /\ table # None
  /\ call' = [fn |-> "has_visible_borders"]
  /\ ret' = has_visible_borders(table[1])
  /\ UNCHANGED <<table, converter, log, counters, styles, walk>>

\* the borders a caller can hand to _is_border_visible: None, or what a
\* border set of the table or of one of its cells holds at an edge
BorderArgs(tbl) ==
  {None}
  \cup (IF tbl.tbl_pr # None /\ tbl.tbl_pr[1].tbl_borders # None
        THEN {tbl.tbl_pr[1].tbl_borders[1][e] : e \in TableEdges} ELSE {})
  \cup UNION {UNION {
          LET cell == tbl.tr[r].tc[c]
          IN IF cell.tc_pr # None /\ cell.tc_pr[1].tc_borders # None
             THEN {cell.tc_pr[1].tc_borders[1][e] : e \in CellEdges} ELSE {}
          : c \in 1..Len(tbl.tr[r].tc)} : r \in 1..Len(tbl.tr)}

\* _is_border_visible(border)
CallIsBorderVisible ==
  \E border \in BorderArgs(table[1]) :
    /\ call = NotCalled
    /\ call' = [fn |-> "_is_border_visible", border |-> border]
    /\ ret' = _is_border_visible(border)
    /\ UNCHANGED <<table, converter, log, counters, styles, walk>>

NextBorders == CallDetectBorders \/ CallHasVisibleBorders \/ CallIsBorderVisible

SpecBorders == InitBorders /\ [][NextBorders]_vars

(***************************************************************************)
(* What the claims read off a table.                                       *)
(***************************************************************************)
\* a border is declared and its style is neither "none" nor "nil"
Visible(border) ==
  /\ Len(border) = 1
  /\ Len(border[1].val) = 1
  /\ border[1].val[1] # "none"
  /\ border[1].val[1] # "nil"

\* the border declared at edge e of the table; None when there is none
TableBorderAt(tbl, e) ==
  IF tbl.tbl_pr = None THEN None
  ELSE IF tbl.tbl_pr[1].tbl_borders = None THEN None
  ELSE tbl.tbl_pr[1].tbl_borders[1][e]

\* the border declared at edge e of the cell at row r, column c (1-based)
CellBorderAt(tbl, r, c, e) ==
  LET cell == tbl.tr[r].tc[c]
  IN IF cell.tc_pr = None THEN None
     ELSE IF cell.tc_pr[1].tc_borders = None THEN None
     ELSE cell.tc_pr[1].tc_borders[1][e]

TableLevelVisible(tbl) == \E e \in TableEdges : Visible(TableBorderAt(tbl, e))

\* the cells of tbl, as <<row, column>> (1-based)
CellsOf(tbl) ==
  UNION {{<<r, c>> : c \in 1..Len(tbl.tr[r].tc)} : r \in 1..Len(tbl.tr)}

\* some cell among cells has a visible border at edge e
SomeVisible(tbl, cells, e) ==
  \E rc \in cells : Visible(CellBorderAt(tbl, rc[1], rc[2], e))

\* tbl with every cell's border declarations removed
StripCellBorders(tbl) ==
  [tbl EXCEPT !.tr = [r \in 1..Len(tbl.tr) |->
     [tc |-> [c \in 1..Len(tbl.tr[r].tc) |->
        [tbl.tr[r].tc[c] EXCEPT !.tc_pr = None]]]]]

DetectCall == call.fn = "detect_borders"

\* C6: when a table-level border is visible, detect_borders returns the
\* visibility of the six table-level borders and nothing else: the table
\* without its cells' borders gets the same BorderInfo.
C6_TableLevelWins ==
  (DetectCall /\ TableLevelVisible(table[1])) =>
    /\ \A e \in TableEdges : ret[e] = Visible(TableBorderAt(table[1], e))
    /\ ret = detect_borders(StripCellBorders(table[1]))

\* a table with a visible table-level border and a visible cell border on
\* another edge has been through detect_borders
C6_Witness ==
  /\ DetectCall
  /\ Visible(TableBorderAt(table[1], "top"))
  /\ SomeVisible(table[1], CellsOf(table[1]), "bottom")
  /\ ~ret.bottom

\* C7: with no table-level border visible, top iff a cell of the first row
\* has a visible top border, bottom iff a cell of the last row has a visible
\* bottom border, left iff a cell of the first column has a visible left
\* border, right iff a cell in the table's last column has a visible right
\* border; for every table, rows of different lengths included.
C7_OuterFlags ==
  (DetectCall /\ ~TableLevelVisible(table[1])) =>
    LET tbl == table[1]
        cells == CellsOf(tbl)
        R == Len(tbl.tr)
        n == NumCols(tbl)
    IN /\ ret.top = SomeVisible(tbl, {rc \in cells : rc[1] = 1}, "top")
       /\ ret.bottom = SomeVisible(tbl, {rc \in cells : rc[1] = R}, "bottom")
       /\ ret.left = SomeVisible(tbl, {rc \in cells : rc[2] = 1}, "left")
       /\ ret.right = SomeVisible(tbl, {rc \in cells : rc[2] = n}, "right")

\* C8: with no table-level border visible, inside_h iff a cell outside the
\* last row has a visible bottom border or a cell outside the first row has
\* a visible top border; inside_v iff a cell that is not the last of its row
\* has a visible right border or a cell that is not the first of its row has
\* a visible left border.
C8_InsideFlags ==
  (DetectCall /\ ~TableLevelVisible(table[1])) =>
    LET tbl == table[1]
        cells == CellsOf(tbl)
        R == Len(tbl.tr)
    IN /\ ret.inside_h =
            (\/ SomeVisible(tbl, {rc \in cells : rc[1] # R}, "bottom")
             \/ SomeVisible(tbl, {rc \in cells : rc[1] # 1}, "top"))
       /\ ret.inside_v =
            (\/ SomeVisible(tbl, {rc \in cells : rc[2] # Len(tbl.tr[rc[1]].tc)}, "right")
             \/ SomeVisible(tbl, {rc \in cells : rc[2] # 1}, "left"))

\* detect_borders has reported inside_v and not inside_h from cell borders
C8_Witness ==
  /\ DetectCall
  /\ ~TableLevelVisible(table[1])
  /\ ret.inside_v /\ ~ret.inside_h
  /\ Len(table[1].tr) = 2

\* the cell at rc declares a border
Declares(tbl, rc) == \E e \in CellEdges : CellBorderAt(tbl, rc[1], rc[2], e) # None

\* C9: a table of at least two rows with no table-level border, in which one
\* cell alone declares a border, in a row other than the last, and that
\* border is a visible bottom border and nothing else, gets inside_h and no
\* other flag.
C9_OnlyBottomOfUpperCell ==
  LET tbl == table[1]
      declaring == {rc \in CellsOf(tbl) : Declares(tbl, rc)}
  IN (/\ DetectCall
      /\ Len(tbl.tr) >= 2
      /\ \A e \in TableEdges : TableBorderAt(tbl, e) = None
      /\ Cardinality(declaring) = 1
      /\ \A rc \in declaring :
           /\ rc[1] < Len(tbl.tr)
           /\ Visible(CellBorderAt(tbl, rc[1], rc[2], "bottom"))
           /\ \A e \in CellEdges \ {"bottom"} : CellBorderAt(tbl, rc[1], rc[2], e) = None)
     => ret = BorderInfo(FALSE, FALSE, FALSE, FALSE, TRUE, FALSE)

\* the 2x2 table whose top-left cell alone declares a bottom border has
\* been through detect_borders
C9_Witness ==
  /\ DetectCall
  /\ Len(table[1].tr) = 2
  /\ Len(table[1].tr[1].tc) = 2 /\ Len(table[1].tr[2].tc) = 2
  /\ \A e \in TableEdges : TableBorderAt(table[1], e) = None
  /\ {rc \in CellsOf(table[1]) : Declares(table[1], rc)} = {<<1, 1>>}
  /\ Visible(CellBorderAt(table[1], 1, 1, "bottom"))
  /\ \A e \in CellEdges \ {"bottom"} : CellBorderAt(table[1], 1, 1, e) = None
  /\ ret.inside_h

\* C27: when no table-level border is visible, detect_borders never reports
\* inside_h for a table of exactly one row and never reports inside_v for a
\* table in which every row has exactly one cell, whatever borders the
\* cells declare; in a one-row table a visible top border of a cell sets
\* top and a visible bottom border of a cell sets bottom.
C27_NoInsideWithoutNeighbour ==
  (DetectCall /\ ~TableLevelVisible(table[1])) =>
    LET tbl == table[1]
        cells == CellsOf(tbl)
    IN /\ Len(tbl.tr) = 1 =>
            /\ ~ret.inside_h
            /\ SomeVisible(tbl, cells, "top") => ret.top
            /\ SomeVisible(tbl, cells, "bottom") => ret.bottom
       /\ (\A r \in 1..Len(tbl.tr) : Len(tbl.tr[r].tc) = 1) => ~ret.inside_v

\* the table of one row of one cell, with a visible bottom and a visible
\* right border on the cell, has been through detect_borders: bottom and
\* right, no inside flag
C27_Witness ==
  /\ DetectCall
  /\ ~TableLevelVisible(table[1])
  /\ Len(table[1].tr) = 1
  /\ Len(table[1].tr[1].tc) = 1
  /\ Visible(CellBorderAt(table[1], 1, 1, "bottom"))
  /\ Visible(CellBorderAt(table[1], 1, 1, "right"))
  /\ ret = BorderInfo(FALSE, TRUE, FALSE, TRUE, FALSE, FALSE)

\* the borders of the cells of tbl that are not visible, as sites
HiddenCellSites(tbl) ==
  {st \in Sites(tbl) : st[1] # 0 /\ ~Visible(CellBorderAt(tbl, st[1], st[2], st[3]))}

\* C28: among the tables with no visible table-level border detect_borders
\* is monotone in the cell borders: making one more cell border visible
\* turns none of the six flags from true to false.  Across the table-level
\* boundary it is not monotone: making a table-level border visible
\* replaces the flags derived from the cells by the table-level ones, so
\* every flag that was true from a cell border and is not the one of that
\* border becomes false.
C28_MonotoneInCellBorders ==
  (DetectCall /\ ~TableLevelVisible(table[1])) =>
    /\ \A st \in HiddenCellSites(table[1]) :
         LET more == detect_borders(Declare(table[1], st, Border("single")))
         IN \A f \in TableEdges : ret[f] => more[f]
    /\ \A e \in TableEdges :
         LET boxed == detect_borders(Declare(table[1], <<0, 0, e>>, Border("single")))
         IN \A f \in TableEdges : boxed[f] = (f = e)

\* detect_borders has reported left and inside_h from the borders of the
\* cells of a table of two rows; the same table with a visible table-level
\* top border gets top alone, and with one more visible cell border it
\* keeps left and inside_h
C28_Witness ==
  /\ DetectCall
  /\ ~TableLevelVisible(table[1])
  /\ Len(table[1].tr) = 2
  /\ ret = BorderInfo(FALSE, FALSE, TRUE, FALSE, TRUE, FALSE)
  /\ detect_borders(Declare(table[1], <<0, 0, "top">>, Border("single")))
       = BorderInfo(TRUE, FALSE, FALSE, FALSE, FALSE, FALSE)
  /\ \E st \in HiddenCellSites(table[1]) :
       LET more == detect_borders(Declare(table[1], st, Border("single")))
       IN more.left /\ more.inside_h /\ more # ret

TableModes == {"ascii", "tabs", "plain", "auto"}

\* a mode outside TableMode: the Literal type is not enforced at run time
OtherMode == "grid"

\* modes outside TableMode, two of them close to a recognised one
OtherModes == {OtherMode, "ASCII", "tab"}

FullBox ==
  <<<<<<0, 0, "top">>, Border("single")>>, <<<<0, 0, "bottom">>, Border("single")>>,
    <<<<0, 0, "left">>, Border("single")>>, <<<<0, 0, "right">>, Border("single")>>,
    <<<<0, 0, "inside_h">>, Border("single")>>, <<<<0, 0, "inside_v">>, Border("single")>>>>

TextDeclarations(tbl) ==
  {<<>>, FullBox}
  \cup {<<<<site, Border("single")>>>> :
          site \in {st \in Sites(tbl) : st[1] <= 1 /\ st[2] <= 1}}
  \cup {<<<<site, b>>>> :
          site \in {st \in Sites(tbl) : st[1] <= 1 /\ st[2] <= 1 /\ st[3] = "top"},
          b \in {BorderNoVal, Border("none"), Border("nil")}}

\* tbl with every border of the table and of its cells declared, none visible
InvisibleEverywhere(tbl) ==
  [tbl_pr |-> Some([tbl_borders |-> Some([e \in TableEdges |-> Border("nil")])]),
   tr |-> [r \in 1..Len(tbl.tr) |->
     [tc |-> [c \in 1..Len(tbl.tr[r].tc) |->
        [tc_pr |-> Some([tc_borders |-> Some([e \in CellEdges |-> Border("none")]),
                         v_merge |-> IF tbl.tr[r].tc[c].tc_pr # None
                                     THEN tbl.tr[r].tc[c].tc_pr[1].v_merge ELSE None]),
         content |-> tbl.tr[r].tc[c].content]]]]]

\* a cell of a vertical span: v_merge is "restart" or "continue"
MergeCell(v_merge, content) ==
  [tc_pr |-> Some([tc_borders |-> None, v_merge |-> Some(v_merge)]), content |-> content]

\* what the continuation cell of a span holds: nothing, the paragraph
\* without text a producer leaves in it, or text
ContinuationContents ==
  {<<>>, <<Paragraph(EmptyStr)>>, <<Paragraph(<<"A">>)>>, MultiParagraph}

\* two rows of two cells, the first column one vertical span
MergedTables ==
  {[tbl_pr |-> None,
    tr |-> <<[tc |-> <<MergeCell("restart", <<Paragraph(<<"A">>)>>),
                       [tc_pr |-> None, content |-> <<Paragraph(<<"B", "C", "D">>)>>]>>],
             [tc |-> <<MergeCell("continue", c),
                       [tc_pr |-> None, content |-> <<Paragraph(<<"A">>)>>]>>]>>]
   : c \in ContinuationContents}

Init ==
  /\ \/ table = None
     \/ \E base \in AsciiTables \cup MergedTables :
          \/ \E decls \in TextDeclarations(base) :
               table = Some(DeclareAll(base, decls))
          \/ table = Some(InvisibleEverywhere(base))
  /\ call = NotCalled
  /\ ret = None
  /\ converter = None
  /\ log = <<>>
  /\ counters = <<>>
  /\ styles = <<>>
  /\ walk = None

\* table_to_text(table, mode)
CallTableToText ==
  \E mode \in TableModes \cup OtherModes :
    /\ call = NotCalled
    /\ call' = [fn |-> "table_to_text", mode |-> mode]
    /\ ret' = table_to_text(table, mode)
    /\ UNCHANGED <<table, converter, log, counters, styles, walk>>

\* the cells a caller can hand to cell_to_text: None, or a cell of the table
CellArgs ==
  {None} \cup (IF table = None THEN {}
               ELSE {Some(table[1].tr[rc[1]].tc[rc[2]]) : rc \in CellsOf(table[1])})

\* cell_to_text(cell)
CallCellToText ==
  \E cell \in CellArgs :
    /\ call = NotCalled
    /\ call' = [fn |-> "cell_to_text", cell |-> cell]
    /\ ret' = cell_to_text(cell)
    /\ UNCHANGED <<table, converter, log, counters, styles, walk>>

Next == CallTableToText \/ CallCellToText

Spec == Init /\ [][Next]_vars

TextCall(mode) ==
  /\ call.fn = "table_to_text"
  /\ call.mode = mode
  /\ table # None
  /\ table[1].tr # <<>>

\* no border of the table and no border of a cell is visible
NoVisibleBorder(tbl) ==
  /\ ~TableLevelVisible(tbl)
  /\ \A e \in CellEdges : ~SomeVisible(tbl, CellsOf(tbl), e)

\* tbl with no border declared at any level
StripBorders(tbl) == [StripCellBorders(tbl) EXCEPT !.tbl_pr = None]

\* C1: for a table with at least one row in which no table-level and no
\* cell-level border is visible, table_to_text in mode auto returns the
\* string it returns in mode tabs.
C1_AutoWithoutBordersIsTabs ==
  (TextCall("auto") /\ NoVisibleBorder(table[1])) =>
    ret = table_to_text(table, "tabs")

\* mode auto has rendered a two-row table that declares an invisible border
\* and holds a cell of two paragraphs
C1_Witness ==
  /\ TextCall("auto")
  /\ NoVisibleBorder(table[1])
  /\ \E e \in TableEdges : TableBorderAt(table[1], e) # None
  /\ Len(table[1].tr) = 2
  /\ \E i \in 1..Len(ret) : ret[i] = TAB
  /\ \E i \in 1..Len(ret) : ret[i] = "C"

\* C2: for a table with at least one row, mode ascii renders with the six
\* border flags true whatever detect_borders returns: the result is
\* table_to_ascii with the full BorderInfo, and the borders declared on
\* the table and its cells do not change it.
C2_AsciiForcesFullBox ==
  TextCall("ascii") =>
    /\ ret = table_to_ascii(table[1], Some(FullBorders))
    /\ ret = table_to_text(Some(StripBorders(table[1])), "ascii")
    /\ LET lines == SplitLines(ret)
       IN /\ Len(lines) = 2 * Len(table[1].tr) + 1
          /\ \A k \in 1..Len(lines) : k % 2 = 1 =>
               IsRuleLine(lines[k], Layout(table[1]), FullBorders)

\* mode ascii has rendered a table for which detect_borders reports the
\* top border alone
C2_Witness ==
  /\ TextCall("ascii")
  /\ detect_borders(table[1]) = BorderInfo(TRUE, FALSE, FALSE, FALSE, FALSE, FALSE)
  /\ Len(table[1].tr) = 2
  /\ Len(SplitLines(ret)) = 5

\* C3: for a table with at least one row, mode auto returns table_to_ascii
\* with the detected BorderInfo when that has any flag set, only the
\* detected edges drawn, and table_to_tabs when it has none.
C3_AutoUsesDetectedBorders ==
  TextCall("auto") =>
    LET info == detect_borders(table[1])
    IN IF has_any(info)
       THEN /\ ret = table_to_ascii(table[1], Some(info))
            /\ LET lines == SplitLines(ret)
                   kinds == LineKinds(Len(table[1].tr), info, 1)
               IN /\ Len(lines) = Len(kinds)
                  /\ \A k \in 1..Len(lines) :
                       IF kinds[k] = 0 THEN IsRuleLine(lines[k], Layout(table[1]), info)
                       ELSE IsDataLine(lines[k], Layout(table[1]), kinds[k], info)
       ELSE ret = table_to_tabs(table[1])

\* mode auto has rendered a two-row table whose only visible border is the
\* left border of its first cell: two lines, no rule
C3_Witness ==
  /\ TextCall("auto")
  /\ detect_borders(table[1]) = BorderInfo(FALSE, FALSE, TRUE, FALSE, FALSE, FALSE)
  /\ Len(table[1].tr) = 2
  /\ Len(SplitLines(ret)) = 2
  /\ ret[1] = "|"

\* C4: cell_to_text(None) is "", table_to_text(None, mode) is "" for every
\* mode, and a table with no rows gives "" in the modes ascii, tabs, plain
\* and auto.
C4_MissingInputsGiveEmpty ==
  /\ (call.fn = "cell_to_text" /\ call.cell = None) => ret = EmptyStr
  /\ (call.fn = "table_to_text" /\ table = None) => ret = EmptyStr
  /\ (call.fn = "table_to_text" /\ table # None /\ call.mode \in TableModes) =>
       (table[1].tr = <<>> => ret = EmptyStr)

\* table_to_text has returned for a table with no rows
C4_Witness ==
  /\ call.fn = "table_to_text"
  /\ call.mode = "ascii"
  /\ table # None
  /\ table[1].tr = <<>>
  /\ ret = EmptyStr

\* the rendered texts of the paragraphs among the items of content, one
\* entry per paragraph, in content order
ParagraphTexts(content) ==
  LET paragraphs == SelectSeq(content, LAMBDA item : item.kind = "Paragraph")
  IN [i \in 1..Len(paragraphs) |-> paragraphs[i].text]

CellCall == call.fn = "cell_to_text" /\ call.cell # None

\* C15 as stated: for a non-null cell, cell_to_text returns the rendered text
\* of each of the cell's paragraphs, one entry per paragraph in content
\* order, joined with a newline: k paragraphs give k-1 newline separators.
C15_EveryParagraphJoined ==
  CellCall =>
    LET texts == ParagraphTexts(call.cell[1].content)
    IN /\ ret = Interleave(texts, <<NL>>)
       /\ Len(texts) >= 1 => Newlines(ret) = Len(texts) - 1

\* C15 amended: for a non-null cell, cell_to_text returns the rendered texts
\* of the cell's paragraphs whose text is not empty, one entry per such
\* paragraph in content order, joined with a newline: k paragraphs with
\* text give k-1 newline separators, and a paragraph without text gives
\* neither an entry nor a separator.
C15_ParagraphsWithTextJoined ==
  CellCall =>
    LET texts == SelectSeq(ParagraphTexts(call.cell[1].content), LAMBDA t : t # EmptyStr)
    IN /\ ret = Interleave(texts, <<NL>>)
       /\ Len(texts) >= 1 => Newlines(ret) = Len(texts) - 1

\* cell_to_text has returned for a cell holding a paragraph "AB", a nested
\* table, a paragraph without text and a paragraph "C"
C15_Witness ==
  /\ CellCall
  /\ call.cell[1].content = MultiParagraph
  /\ ret = <<"A", "B", NL, "C">>

\* the cell is the continuation of a vertical span
IsContinuation(cell) ==
  /\ cell.tc_pr # None
  /\ cell.tc_pr[1].v_merge = Some("continue")

\* tbl with the content of every continuation cell removed
ClearContinuations(tbl) ==
  [tbl EXCEPT !.tr = [r \in 1..Len(tbl.tr) |->
     [tc |-> [c \in 1..Len(tbl.tr[r].tc) |->
        IF IsContinuation(tbl.tr[r].tc[c])
        THEN [tbl.tr[r].tc[c] EXCEPT !.content = <<>>]
        ELSE tbl.tr[r].tc[c]]]]]

\* C17: the content of a vertical-merge continuation cell is ignored by the
\* text renderer: in every mode table_to_text returns for a table what it
\* returns for the table that differs from it only in that its
\* continuation cells hold nothing.
C17_ContinuationContentIgnored ==
  (call.fn = "table_to_text" /\ table # None) =>
    ret = table_to_text(Some(ClearContinuations(table[1])), call.mode)

\* the rows of tbl do not all have the same number of cells
Ragged(tbl) == \E r1, r2 \in 1..Len(tbl.tr) : Len(tbl.tr[r1].tc) # Len(tbl.tr[r2].tc)

\* C19: a table whose rows have different cell counts is rendered in every
\* mode.  Where the box is drawn (mode ascii, and mode auto with a visible
\* border) every data line has the cells of the longest row: a row with
\* fewer cells is continued on the right with cells without text, and in
\* the full box every data line has as many "|" as any other.  The modes
\* tabs and plain, and auto without a visible border, return each row with
\* the cells it has.
C19_RaggedRowsPadded ==
  (call.fn = "table_to_text" /\ table # None /\ Ragged(table[1])) =>
    LET tbl == table[1]
        mode == call.mode
        info == IF mode = "ascii" THEN FullBorders ELSE detect_borders(tbl)
        boxed == mode = "ascii" \/ (mode = "auto" /\ has_any(info))
        lay == Layout(tbl)
        lines == SplitLines(ret)
        kinds == LineKinds(Len(tbl.tr), info, 1)
    IN IF boxed
       THEN /\ Len(lines) = Len(kinds)
            /\ \A k \in 1..Len(kinds) : kinds[k] # 0 =>
                 LET r == kinds[k]
                 IN /\ Len(lines[k]) = lay.len
                    /\ \A c \in (Len(tbl.tr[r].tc) + 1)..lay.n :
                         \A p \in lay.start[c]..(lay.start[c] + lay.w[c] + 1) :
                           lines[k][p] = SP
                    /\ mode = "ascii" => Len(SplitOn(lines[k], "|")) = lay.n + 2
       ELSE ret = SeparatedText(tbl, IF mode = "tabs" \/ mode = "auto"
                                     THEN <<TAB>> ELSE <<SP, SP>>)

\* mode ascii has rendered a table whose first row has one cell and whose
\* second row has two: the first data line has a second cell, without text
C19_Witness ==
  /\ TextCall("ascii")
  /\ Len(table[1].tr) = 2
  /\ Len(table[1].tr[1].tc) = 1 /\ Len(table[1].tr[2].tc) = 2
  /\ Len(SplitLines(ret)) = 5
  /\ Len(SplitOn(SplitLines(ret)[2], "|")) = 4
  /\ SplitLines(ret)[2][Len(SplitLines(ret)[2]) - 2] = SP

\* C29: for a table with at least one row, table_to_text with a mode that
\* is none of "ascii", "tabs", "plain" and "auto" returns (no error) the
\* string it returns in mode plain, the rows with two spaces between the
\* cells, whatever borders the table has: only the four recognised modes
\* select the box or the tab rendering.
C29_UnknownModeIsPlain ==
  (/\ call.fn = "table_to_text"
   /\ call.mode \notin TableModes
   /\ table # None
   /\ table[1].tr # <<>>)
  => /\ ret = table_to_text(table, "plain")
     /\ ret = SeparatedText(table[1], <<SP, SP>>)

\* mode "ASCII" has rendered a table of two cells with the six table-level
\* borders visible: two spaces between the cells, no box
C29_Witness ==
  /\ TextCall("ASCII")
  /\ \A e \in TableEdges : Visible(TableBorderAt(table[1], e))
  /\ ret = <<"A", "1", SP, SP, "A", "2">>
  /\ ret # table_to_text(table, "ascii")
  /\ ret # table_to_text(table, "tabs")

\* the paragraphs of the cell at rc whose rendered text is not empty
TextParagraphs(tbl, rc) ==
  SelectSeq(ParagraphTexts(tbl.tr[rc[1]].tc[rc[2]].content), LAMBDA t : t # EmptyStr)

RECURSIVE InnerNewlinesOf(_, _)
\* the newlines the cells among cells hold between their paragraphs
InnerNewlinesOf(tbl, cells) ==
  IF cells = {} THEN 0
  ELSE LET rc == CHOOSE x \in cells : TRUE
       IN Max(0, Len(TextParagraphs(tbl, rc)) - 1) + InnerNewlinesOf(tbl, cells \ {rc})

InnerNewlines(tbl) == InnerNewlinesOf(tbl, CellsOf(tbl))

\* C30: only the box rendering flattens the newlines inside a cell.  In
\* the modes tabs and plain, and in auto when no border is visible, the
\* newlines between the paragraphs of a cell are kept in the output: it has
\* one line per row and one more per newline inside a cell, so that the
\* number of lines is the number of rows exactly when no cell has more than
\* one paragraph with text.  Where the box is drawn every row is one line.
C30_NewlinesKeptOutsideBox ==
  (call.fn = "table_to_text" /\ table # None /\ table[1].tr # <<>>) =>
    LET tbl == table[1]
        mode == call.mode
        info == IF mode = "ascii" THEN FullBorders ELSE detect_borders(tbl)
        boxed == mode = "ascii" \/ (mode = "auto" /\ has_any(info))
        lines == SplitLines(ret)
        R == Len(tbl.tr)
    IN IF boxed
       THEN Len(lines) = Len(LineKinds(R, info, 1))
       ELSE /\ Len(lines) = R + InnerNewlines(tbl)
            /\ (Len(lines) = R) =
                 (\A rc \in CellsOf(tbl) : Len(TextParagraphs(tbl, rc)) <= 1)

\* mode auto has rendered, without a visible border, a table of two rows
\* whose first cell has the paragraphs "AB" and "C": three lines, and the
\* box of the same table has five
C30_Witness ==
  /\ TextCall("auto")
  /\ NoVisibleBorder(table[1])
  /\ Len(table[1].tr) = 2
  /\ Len(table[1].tr[1].tc) = 1 /\ Len(table[1].tr[2].tc) = 1
  /\ table[1].tr[1].tc[1].content = MultiParagraph
  /\ ret = <<"A", "B", NL, "C", NL>>
  /\ Len(SplitLines(table_to_text(table, "ascii"))) = 5

(***************************************************************************)
(* Calls one after the other: SpecConverter.  A converter is constructed   *)
(* with a mode; then convert and the module-level table_to_text are called *)
(* in any order on any of the tables, at most MaxCalls times.  The log has *)
(* the construction first and then one entry per call: the function, its   *)
(* table argument, its mode argument (None where it takes none) and what   *)
(* it returned.                                                            *)
(***************************************************************************)
\* two rows, 2 cells and 1 cell, the first cell with several paragraphs and
\* a visible left border
LeftBorderTable ==
  [tbl_pr |-> None,
   tr |-> <<[tc |-> <<[tc_pr |-> Some([tc_borders |->
                                  Some([NoCellBorders EXCEPT !.left = Border("single")]),
                                  v_merge |-> None]),
                       content |-> MultiParagraph],
                      [tc_pr |-> None, content |-> <<>>]>>],
            [tc |-> <<[tc_pr |-> None, content |-> <<Paragraph(<<"A">>)>>]>>]>>]

ConverterTables == {None, Some(LiteralTable), Some(LeftBorderTable)}

LogEntry(fn, tbl, mode, result) == [fn |-> fn, table |-> tbl, mode |-> mode, ret |-> result]

InitConverter ==
  \E mode \in TableModes \cup {OtherMode} :
    /\ converter = Some(TableToTextConverter(mode))
    /\ log = <<LogEntry("__init__", None, Some(mode), None)>>
    /\ table = None
    /\ call = NotCalled
    /\ ret = None
    /\ counters = <<>>
    /\ styles = <<>>
    /\ walk = None

\* converter.convert(tbl)
CallConvert ==
  \E tbl \in ConverterTables :
    LET result == convert(converter[1], tbl)
    IN /\ Len(log) <= MaxCalls
       /\ table' = tbl
       /\ call' = [fn |-> "convert"]
       /\ ret' = result.ret
       /\ converter' = Some(result.self)
       /\ log' = Append(log, LogEntry("convert", tbl, None, result.ret))
       /\ UNCHANGED <<counters, styles, walk>>

\* table_to_text(tbl, mode), called while the converter exists
CallTableToTextBeside ==
  \E tbl \in ConverterTables, mode \in TableModes \cup {OtherMode} :
    /\ Len(log) <= MaxCalls
    /\ table' = tbl
    /\ call' = [fn |-> "table_to_text", mode |-> mode]
    /\ ret' = table_to_text(tbl, mode)
    /\ log' = Append(log, LogEntry("table_to_text", tbl, Some(mode), ret'))
    /\ UNCHANGED <<converter, counters, styles, walk>>

NextConverter == CallConvert \/ CallTableToTextBeside

SpecConverter == InitConverter /\ [][NextConverter]_vars

\* the mode the caller asked for in the call logged at i: the mode argument
\* of table_to_text, the mode the converter was constructed with for convert
AskedMode(i) == IF log[i].fn = "convert" THEN log[1].mode[1] ELSE log[i].mode[1]

\* C16: rendering leaks no state between calls: any two calls, through the
\* converter or through table_to_text, next to each other or with calls on
\* other tables or in other modes between them, that are made for the same
\* table and the same mode return the same string.
C16_SameCallSameResult ==
  \A i, j \in 2..Len(log) :
    (log[i].table = log[j].table /\ AskedMode(i) = AskedMode(j)) =>
      log[i].ret = log[j].ret

\* a converter in mode auto has rendered the table with a left border, then
\* table_to_text another table in mode ascii, then the converter the first
\* table again
C16_Witness ==
  /\ Len(log) = 4
  /\ log[1].mode = Some("auto")
  /\ log[2].fn = "convert" /\ log[2].table = Some(LeftBorderTable)
  /\ log[3].fn = "table_to_text" /\ log[3].table = Some(LiteralTable)
  /\ log[3].mode = Some("ascii")
  /\ log[4].fn = "convert" /\ log[4].table = Some(LeftBorderTable)
  /\ log[4].ret = log[2].ret
  /\ log[4].ret[1] = "|"

(***************************************************************************)
(* One render pass over the paragraphs of a document: SpecNumbering.  The  *)
(* catalog is the numbering.xml of the list test document, and a numId 4   *)
(* whose levels start at other values than 1.  The log has, per paragraph, *)
(* its numbering reference and the marker it got.                          *)
(***************************************************************************)
NumberingLevel(format, start, text) == [format |-> format, start |-> start, text |-> text]

\* numId -> levels 0, 1, ...  The bullet glyphs of numId 1 are characters of
\* a symbol font, written "o" here.
NumberingCatalog ==
  [num_id \in 1..4 |->
     IF num_id = 1
     THEN <<NumberingLevel("bullet", 1, <<"o">>), NumberingLevel("bullet", 1, <<"o">>),
            NumberingLevel("bullet", 1, <<"o">>)>>
     ELSE IF num_id = 2
     THEN <<NumberingLevel("decimal", 1, <<"%", "1", ".">>),
            NumberingLevel("lowerLetter", 1, <<"%", "2", ".">>),
            NumberingLevel("lowerRoman", 1, <<"%", "3", ".">>)>>
     ELSE IF num_id = 3
     THEN <<NumberingLevel("upperRoman", 1, <<"%", "1", ".">>)>>
     ELSE <<NumberingLevel("decimal", 4, <<"%", "1", ".">>),
            NumberingLevel("upperLetter", 3, <<"%", "2", ")">>)>>]

\* a numId that numbering.xml does not define
UnknownNumId == 9

\* the numbering references of the list paragraphs of a pass
NumberingRefs ==
  {<<2, 0>>, <<2, 1>>, <<2, 2>>, <<3, 0>>, <<4, 0>>, <<4, 1>>, <<UnknownNumId, 0>>}

InitNumbering ==
  /\ counters = <<>>
  /\ styles = <<>>
  /\ walk = None
  /\ log = <<>>
  /\ table = None
  /\ call = NotCalled
  /\ ret = None
  /\ converter = None

\* the pass reaches a paragraph with a numbering reference
ResolveListParagraph ==
  \E ref \in NumberingRefs :
    LET resolved == resolve_numbering(Some(ref), NumberingCatalog, counters)
    IN /\ Len(log) < MaxParagraphs
       /\ call' = [fn |-> "resolve_numbering", numbering_ref |-> Some(ref)]
       /\ ret' = resolved.result.marker_text
       /\ counters' = resolved.counters
       /\ log' = Append(log, [numbering_ref |-> Some(ref),
                               marker_text |-> resolved.result.marker_text])
       /\ UNCHANGED <<table, converter, styles, walk>>

\* the pass reaches a paragraph without a numbering reference
ResolvePlainParagraph ==
  LET resolved == resolve_numbering(None, NumberingCatalog, counters)
  IN /\ Len(log) < MaxParagraphs
     /\ call' = [fn |-> "resolve_numbering", numbering_ref |-> None]
     /\ ret' = resolved.result.marker_text
     /\ counters' = resolved.counters
     /\ log' = Append(log, [numbering_ref |-> None,
                             marker_text |-> resolved.result.marker_text])
     /\ UNCHANGED <<table, converter, styles, walk>>

NextNumbering == ResolveListParagraph \/ ResolvePlainParagraph

SpecNumbering == InitNumbering /\ [][NextNumbering]_vars

\* the paragraph logged at i uses level ilvl of num_id
Uses(i, num_id, ilvl) == log[i].numbering_ref = Some(<<num_id, ilvl>>)

\* the marker of level ilvl of num_id when its counter stands at value:
\* the templates of the catalog are %k and one more character
MarkerAt(num_id, ilvl, value) ==
  LET level == NumberingCatalog[num_id][ilvl + 1]
  IN Some(format_counter(value, level.format) \o SubSeq(level.text, 3, Len(level.text)))

\* C20: within one render pass, a paragraph that uses level L of a numId
\* restarts every deeper level of that numId: the next paragraph at a deeper
\* level M, when no paragraph has used M since, shows the start value of M.
\* The paragraphs L0, L1, L1, L0, L1 of one numId with lowerLetter at level
\* 1 get the level-1 markers a, b, a.
C20_DeeperLevelsRestart ==
  /\ \A j \in 1..Len(log) : \A num_id \in DOMAIN NumberingCatalog :
       \A M \in 0..(Len(NumberingCatalog[num_id]) - 1) :
         (/\ Uses(j, num_id, M)
          /\ \E k \in 1..(j - 1) :
               /\ \E L \in 0..(M - 1) : Uses(k, num_id, L)
               /\ \A i \in (k + 1)..(j - 1) : ~Uses(i, num_id, M))
         => log[j].marker_text =
              MarkerAt(num_id, M, NumberingCatalog[num_id][M + 1].start)
  /\ (/\ Len(log) = 5
      /\ Uses(1, 2, 0) /\ Uses(2, 2, 1) /\ Uses(3, 2, 1) /\ Uses(4, 2, 0) /\ Uses(5, 2, 1))
     => /\ log[2].marker_text = Some(<<"a", ".">>)
        /\ log[3].marker_text = Some(<<"b", ".">>)
        /\ log[5].marker_text = Some(<<"a", ".">>)

\* the pass has been over the paragraphs L0, L1, L1, L0, L1 of numId 2, the
\* third with the marker "b." and the last with "a."
C20_Witness ==
  /\ Len(log) = 5
  /\ Uses(1, 2, 0) /\ Uses(2, 2, 1) /\ Uses(3, 2, 1) /\ Uses(4, 2, 0) /\ Uses(5, 2, 1)
  /\ log[3].marker_text = Some(<<"b", ".">>)
  /\ ret = Some(<<"a", ".">>)

\* the values a counter of the catalog can stand at within one pass
CounterValues ==
  LET starts == UNION {{NumberingCatalog[n][l].start : l \in 1..Len(NumberingCatalog[n])}
                       : n \in DOMAIN NumberingCatalog}
  IN 1..(SetMax(starts) + MaxParagraphs)

\* C21: the first paragraph that uses (numId, ilvl) in a render pass gets
\* the start value of the level, and a later paragraph at the same (numId,
\* ilvl) with no use of a shallower level of that numId since the previous
\* one gets the previous value plus 1, whatever non-list paragraphs and
\* paragraphs of other numIds lie between the two; with start 1 two level-0
\* paragraphs get "1." then "2." for decimal and "I." then "II." for
\* upperRoman.
C21_NumberingIncrement ==
  \A j \in 1..Len(log) : \A num_id \in DOMAIN NumberingCatalog :
    \A M \in 0..(Len(NumberingCatalog[num_id]) - 1) :
      Uses(j, num_id, M) =>
        LET earlier == {k \in 1..(j - 1) : Uses(k, num_id, M)}
            start == NumberingCatalog[num_id][M + 1].start
            format == NumberingCatalog[num_id][M + 1].format
        IN IF earlier = {}
           THEN /\ log[j].marker_text = MarkerAt(num_id, M, start)
                /\ (start = 1 /\ M = 0 /\ format = "decimal") =>
                     log[j].marker_text = Some(<<"1", ".">>)
                /\ (start = 1 /\ M = 0 /\ format = "upperRoman") =>
                     log[j].marker_text = Some(<<"I", ".">>)
           ELSE LET k == SetMax(earlier)
                IN (\A i \in (k + 1)..(j - 1) : \A L \in 0..(M - 1) : ~Uses(i, num_id, L)) =>
                     /\ \E v \in CounterValues :
                          /\ log[k].marker_text = MarkerAt(num_id, M, v)
                          /\ log[j].marker_text = MarkerAt(num_id, M, v + 1)
                     /\ (log[k].marker_text = Some(<<"1", ".">>)) =>
                          log[j].marker_text = Some(<<"2", ".">>)
                     /\ (log[k].marker_text = Some(<<"I", ".">>)) =>
                          log[j].marker_text = Some(<<"I", "I", ".">>)

\* the pass has been over a decimal item, a paragraph that is no list item,
\* an upperRoman item, a second decimal item and a second upperRoman item:
\* the markers are "1.", none, "I.", "2.", "II."
C21_Witness ==
  /\ Len(log) = 5
  /\ Uses(1, 2, 0) /\ log[2].numbering_ref = None /\ Uses(3, 3, 0)
  /\ Uses(4, 2, 0) /\ Uses(5, 3, 0)
  /\ log[1].marker_text = Some(<<"1", ".">>)
  /\ log[2].marker_text = None
  /\ log[3].marker_text = Some(<<"I", ".">>)
  /\ log[4].marker_text = Some(<<"2", ".">>)
  /\ ret = Some(<<"I", "I", ".">>)

\* the numbering reference names a numId that the catalog does not have
UnknownRef(numbering_ref) ==
  /\ numbering_ref # None
  /\ numbering_ref[1][1] \notin DOMAIN NumberingCatalog

\* C22: a paragraph whose numId is not in the numbering catalog is rendered
\* as a paragraph that is no list item: the step that resolves it returns
\* (no error), gives it no marker and leaves every counter of the pass as
\* it was.
C22_UnknownNumIdIsNonList ==
  [][(call'.fn = "resolve_numbering" /\ UnknownRef(call'.numbering_ref)) =>
       /\ ret' = None
       /\ counters' = counters
       /\ log' = Append(log, [numbering_ref |-> call'.numbering_ref,
                               marker_text |-> None])]_vars

\* between two decimal items a paragraph with an unknown numId has been
\* resolved: it has no marker and the second item is numbered "2."
C22_Witness ==
  /\ Len(log) = 3
  /\ Uses(1, 2, 0) /\ Uses(2, UnknownNumId, 0) /\ Uses(3, 2, 0)
  /\ log[2].marker_text = None
  /\ ret = Some(<<"2", ".">>)
  /\ counters[<<2, 0>>] = 2

(***************************************************************************)
(* What a call writes.  The heap of a call has the objects handed to it,   *)
(* the table (with its rows, cells, paragraphs and border declarations)    *)
(* and the optional BorderInfo, and the objects the call creates, by the   *)
(* name of the local variable that holds them.  A list created by [] and a *)
(* BorderInfo created by BorderInfo() are new objects: an append to such a *)
(* list and an assignment to an attribute of such a BorderInfo write to    *)
(* the locals.  Each operator below is the heap after the function ran, by *)
(* the writes of its code in order.                                        *)
(***************************************************************************)
Heap(tbl, border_info) == [table |-> tbl, border_info |-> border_info, locals |-> <<>>]

\* the object held by the local variable name becomes value
Write(heap, name, value) ==
  [heap EXCEPT !.locals = [n \in DOMAIN heap.locals \cup {name} |->
                             IF n = name THEN value ELSE heap.locals[n]]]

\* cell_to_text(cell): parts = [] and parts.append(text)
cell_to_text_writes(heap, cell) ==
  IF cell = None THEN heap
  ELSE Write(heap, "parts", cell_parts(cell[1].content))

\* row_to_text(row, separator): cells = [] and cells.append(text); the
\* cell_to_text calls write their own parts
row_to_text_writes(heap, row) ==
  IF row = None THEN heap
  ELSE Write(heap, "cells",
             List([i \in 1..Len(row[1].tc) |-> cell_to_text(Some(row[1].tc[i]))]))

\* detect_borders(table): info = BorderInfo() and the assignments info.x = ...
detect_borders_writes(heap) ==
  LET tbl == heap.table[1]
      table_level == Write(heap, "info", table_level_info(tbl))
  IN IF ~has_any(table_level.locals["info"]) /\ tbl.tr # <<>>
     THEN Write(table_level, "info", scan_cells(tbl, table_level.locals["info"], 0, 0))
     ELSE table_level

\* mutant: the padding loop appends a cell without content to the rows of
\* the table
pad_rows_of_table(heap, max_cols) ==
  [heap EXCEPT !.table =
     Some([heap.table[1] EXCEPT !.tr =
        [r \in 1..Len(heap.table[1].tr) |->
           [heap.table[1].tr[r] EXCEPT !.tc =
              @ \o [i \in 1..(max_cols - Len(@)) |-> [tc_pr |-> None, content |-> <<>>]]]]])]

\* the padding loop of table_to_ascii: for row in rows_data, row.append("")
\* while the row is shorter than max_cols; the rows of rows_data are the
\* lists cells that the loop before it created
pad_rows(heap, max_cols) ==
  Write(heap, "rows_data",
        List([r \in 1..Len(heap.locals["rows_data"]) |->
                pad_row(heap.locals["rows_data"][r], max_cols)]))

\* table_to_ascii(table, border_info): the name border_info is bound to the
\* result of detect_borders when None was passed; rows_data and its lists
\* cells are created and filled, then padded; col_widths and lines are
\* created and filled
table_to_ascii_writes(heap) ==
  IF heap.table[1].tr = <<>> THEN heap
  ELSE LET detected == IF heap.border_info = None THEN detect_borders_writes(heap) ELSE heap
           info == IF heap.border_info = None THEN detected.locals["info"]
                   ELSE heap.border_info[1]
           filled == Write(detected, "rows_data", cell_texts(heap.table[1]))
           max_cols == max_len(filled.locals["rows_data"])
           padded == pad_rows(filled, max_cols)
           rows_data == padded.locals["rows_data"]
           measured == Write(padded, "col_widths",
                             List([c \in 1..max_cols |-> col_width(rows_data, c - 1)]))
       IN Write(measured, "lines", ascii_lines(padded.table[1], info))

\* table_to_tabs(table), table_to_plain(table): lines = [] and
\* lines.append(line); the row_to_text calls write their own cells
separated_writes(heap, separator) ==
  IF heap.table[1].tr = <<>> THEN heap
  ELSE Write(heap, "lines",
             List([r \in 1..Len(heap.table[1].tr) |->
                     row_to_text(Some(heap.table[1].tr[r]), separator)]))

\* table_to_text(table, mode): it writes nothing itself; has_visible_borders
\* and the renderer it hands the table to write
table_to_text_writes(heap, mode) ==
  IF heap.table = None THEN heap
  ELSE IF heap.table[1].tr = <<>> THEN heap
  ELSE LET looked == IF mode = "auto" THEN detect_borders_writes(heap) ELSE heap
           actual == actual_mode(heap.table[1], mode)
       IN IF actual = "ascii"
          THEN (IF mode = "ascii"
                THEN table_to_ascii_writes([looked EXCEPT !.border_info = Some(FullBorders)])
                ELSE table_to_ascii_writes(looked))
          ELSE IF actual = "tabs" THEN separated_writes(looked, <<TAB>>)
          ELSE separated_writes(looked, <<SP, SP>>)

(***************************************************************************)
(* Calls one after the other on one table: SpecFrame.  A caller holds a    *)
(* table and makes the rendering and detection calls on it in any order,   *)
(* any number of times; each call leaves the table as its writes leave it. *)
(* call has the function and its arguments, and for table_to_ascii the     *)
(* BorderInfo object of the caller as the call left it; log has the        *)
(* function called before.                                                 *)
(***************************************************************************)
\* one row with a cell, one row without cells
EmptyRowTable ==
  [tbl_pr |-> None,
   tr |-> <<[tc |-> <<[tc_pr |-> None, content |-> <<Paragraph(<<"A">>)>>]>>],
            [tc |-> <<>>]>>]

FrameTables ==
  {LiteralTable, LeftBorderTable, EmptyRowTable, DeclareAll(LeftBorderTable, FullBox)}

InitFrame ==
  /\ table \in {Some(t) : t \in FrameTables}
  /\ call = NotCalled
  /\ ret = None
  /\ converter = None
  /\ log = <<>>
  /\ counters = <<>>
  /\ styles = <<>>
  /\ walk = None

FrameCellToText ==
  \E cell \in CellArgs :
    /\ call' = [fn |-> "cell_to_text", cell |-> cell]
    /\ ret' = cell_to_text(cell)
    /\ table' = cell_to_text_writes(Heap(table, None), cell).table
    /\ log' = <<call.fn>>
    /\ UNCHANGED <<converter, counters, styles, walk>>

FrameRowToText ==
  \E row \in RowArgs, separator \in Separators :
    /\ call' = [fn |-> "row_to_text", row |-> row, separator |-> separator]
    /\ ret' = row_to_text(row, separator)
    /\ table' = row_to_text_writes(Heap(table, None), row).table
    /\ log' = <<call.fn>>
    /\ UNCHANGED <<converter, counters, styles, walk>>

FrameDetectBorders ==
  /\ call' = [fn |-> "detect_borders"]
  /\ ret' = detect_borders(table[1])
  /\ table' = detect_borders_writes(Heap(table, None)).table
  /\ log' = <<call.fn>>
  /\ UNCHANGED <<converter, counters, styles, walk>>

FrameTableToAscii ==
  \E border_info \in {None} \cup {Some(b) : b \in AllBorderInfo} :
    LET after == table_to_ascii_writes(Heap(table, border_info))
    IN /\ call' = [fn |-> "table_to_ascii", border_info |-> border_info,
                   border_info_after |-> after.border_info]
       /\ ret' = table_to_ascii(table[1], border_info)
       /\ table' = after.table
       /\ log' = <<call.fn>>
       /\ UNCHANGED <<converter, counters, styles, walk>>

FrameTableToTabs ==
  /\ call' = [fn |-> "table_to_tabs"]
  /\ ret' = table_to_tabs(table[1])
  /\ table' = separated_writes(Heap(table, None), <<TAB>>).table
  /\ log' = <<call.fn>>
  /\ UNCHANGED <<converter, counters, styles, walk>>

FrameTableToPlain ==
  /\ call' = [fn |-> "table_to_plain"]
  /\ ret' = table_to_plain(table[1])
  /\ table' = separated_writes(Heap(table, None), <<SP, SP>>).table
  /\ log' = <<call.fn>>
  /\ UNCHANGED <<converter, counters, styles, walk>>

FrameTableToText ==
  \E mode \in TableModes \cup {OtherMode} :
    /\ call' = [fn |-> "table_to_text", mode |-> mode]
    /\ ret' = table_to_text(table, mode)
    /\ table' = table_to_text_writes(Heap(table, None), mode).table
    /\ log' = <<call.fn>>
    /\ UNCHANGED <<converter, counters, styles, walk>>

NextFrame ==
  \/ FrameCellToText
  \/ FrameRowToText
  \/ FrameDetectBorders
  \/ FrameTableToAscii
  \/ FrameTableToTabs
  \/ FrameTableToPlain
  \/ FrameTableToText

SpecFrame == InitFrame /\ [][NextFrame]_vars

\* C25: no rendering or detection call changes its inputs: over any
\* sequence of cell_to_text, row_to_text, detect_borders, table_to_ascii,
\* table_to_tabs, table_to_plain and table_to_text calls every call leaves
\* the table (its rows, cells, paragraphs and border declarations) as it
\* found it, and table_to_ascii leaves the BorderInfo passed to it as it
\* was; the padding of short rows adds no cell to the table.
C25_CallsLeaveInputs ==
  [][/\ table' = table
     /\ CellCount(table'[1]) = CellCount(table[1])
     /\ call'.fn = "table_to_ascii" => call'.border_info_after = call'.border_info]_vars

\* after a table_to_text call, table_to_ascii with a BorderInfo of top and
\* left alone has rendered the table of a row with a cell and a row
\* without cells, whose second data line is a padded cell
C25_Witness ==
  /\ log = <<"table_to_text">>
  /\ call.fn = "table_to_ascii"
  /\ call.border_info = Some(BorderInfo(TRUE, FALSE, TRUE, FALSE, FALSE, FALSE))
  /\ table = Some(EmptyRowTable)
  /\ ret = <<"+", "-", "-", "-", "-", NL, "|", SP, "A", SP, SP, NL, "|", SP, SP, SP, SP>>

(***************************************************************************)
(* Style resolution: the walk along a style's basedOn chain, specified in  *)
(* section 4.2 of the specification.  A styles table maps a style id to    *)
(* its optional parent (basedOn) and the properties it declares.  The walk *)
(* starts at the style an element references and is one loop: each turn    *)
(* either stops or visits one style and moves to its parent.  Its state is *)
(*   current  the optional id of the style to visit next                   *)
(*   seen     the ids visited, in order                                    *)
(*   values   per property, the value of its first definer among seen      *)
(*   done     the walk has stopped;  cycle  it stopped at a repeated id.   *)
(***************************************************************************)
StyleProperties == {"bold", "size"}

\* a style declaring the properties of D.  The value a style declares is
\* its own id, so that a resolved value shows its definer.
Style(id, based_on, D) == [based_on |-> based_on, properties |-> [p \in D |-> id]]

\* the styles tables of n styles, ids 1..n; a parent is a style of the table
StylesTables(n) ==
  {[i \in 1..n |-> Style(i, st[i][1], st[i][2])] :
     st \in [1..n -> ({None} \cup {Some(i) : i \in 1..n}) \X SUBSET StyleProperties]}

\* the style the resolved element references: the tables have every chain
\* of parents from it, so the walks from the other ids are among them
ReferencedStyle == 1

StartWalk(style_id) ==
  [current |-> Some(style_id), seen |-> <<>>, values |-> <<>>,
   done |-> FALSE, cycle |-> FALSE]

\* the ids of a list, as a set
Ids(seen) == {seen[i] : i \in 1..Len(seen)}

\* mutant: only the style visited last is remembered
walk_step_remembers_last(style_table, w) ==
  IF w.current = None THEN [w EXCEPT !.done = TRUE]
  ELSE LET id == w.current[1]
       IN IF id \in Ids(w.seen)
          THEN [w EXCEPT !.done = TRUE, !.cycle = TRUE]
          ELSE LET own == style_table[id].properties
                   keep == DOMAIN w.values \cup DOMAIN own
               IN [w EXCEPT !.seen = <<id>>,
                            !.values = [p \in keep |-> IF p \in DOMAIN w.values
                                                       THEN w.values[p] ELSE own[p]],
                            !.current = style_table[id].based_on]

\* one turn of the loop: stop at a style without parent, stop at an id
\* already seen, or visit the style (a property that has no value yet takes
\* the one the style declares) and move to its parent
walk_step(style_table, w) ==
  IF w.current = None THEN [w EXCEPT !.done = TRUE]
  ELSE LET id == w.current[1]
       IN IF id \in Ids(w.seen)
          THEN [w EXCEPT !.done = TRUE, !.cycle = TRUE]
          ELSE LET own == style_table[id].properties
                   keep == DOMAIN w.values \cup DOMAIN own
               IN [w EXCEPT !.seen = Append(@, id),
                            !.values = [p \in keep |-> IF p \in DOMAIN w.values
                                                       THEN w.values[p] ELSE own[p]],
                            !.current = style_table[id].based_on]

(***************************************************************************)
(* The walk, one turn of its loop per step: SpecStyles.  The loop runs in  *)
(* one thread with nothing to wait for, so a turn that can be taken is     *)
(* taken: FairSpecStyles.                                                  *)
(***************************************************************************)
InitStyles ==
  /\ \E n \in 1..MaxStyles : styles \in StylesTables(n)
  /\ walk = Some(StartWalk(ReferencedStyle))
  /\ table = None
  /\ call = NotCalled
  /\ ret = None
  /\ converter = None
  /\ log = <<>>
  /\ counters = <<>>

\* the style to visit has not been seen: it is visited
FollowBasedOn ==
  /\ ~walk[1].done
  /\ walk[1].current # None
  /\ walk[1].current[1] \notin Ids(walk[1].seen)
  /\ walk' = Some(walk_step(styles, walk[1]))
  /\ UNCHANGED <<table, call, ret, converter, log, counters, styles>>

\* the style visited last has no parent
StopAtRoot ==
  /\ ~walk[1].done
  /\ walk[1].current = None
  /\ walk' = Some(walk_step(styles, walk[1]))
  /\ UNCHANGED <<table, call, ret, converter, log, counters, styles>>

\* the style to visit has been seen: the chain is a cycle
StopAtCycle ==
  /\ ~walk[1].done
  /\ walk[1].current # None
  /\ walk[1].current[1] \in Ids(walk[1].seen)
  /\ walk' = Some(walk_step(styles, walk[1]))
  /\ UNCHANGED <<table, call, ret, converter, log, counters, styles>>

NextStyles == FollowBasedOn \/ StopAtRoot \/ StopAtCycle

SpecStyles == InitStyles /\ [][NextStyles]_vars

FairSpecStyles == SpecStyles /\ WF_vars(NextStyles)

\* seen is a chain of parent links without a repeated id
IsChain(seen) ==
  /\ \A i, j \in 1..Len(seen) : seen[i] = seen[j] => i = j
  /\ \A i \in 1..(Len(seen) - 1) : styles[seen[i]].based_on = Some(seen[i + 1])

\* the styles of seen that declare p, by their place in seen
Definers(seen, p) == {i \in 1..Len(seen) : p \in DOMAIN styles[seen[i]].properties}

\* values has, for every property a style of seen declares, the value of
\* the first such style, and nothing else
CollectedFrom(values, seen) ==
  /\ DOMAIN values = {p \in StyleProperties : Definers(seen, p) # {}}
  /\ \A p \in DOMAIN values :
       \E i \in Definers(seen, p) :
         /\ \A j \in Definers(seen, p) : i <= j
         /\ values[p] = styles[seen[i]].properties[p]

\* the walk has stopped, at a style without parent or at the first id seen
\* twice, with the values of the styles visited
WalkResolved ==
  LET w == walk[1]
  IN /\ w.done
     /\ Len(w.seen) >= 1
     /\ IsChain(w.seen)
     /\ CollectedFrom(w.values, w.seen)
     /\ LET last == styles[w.seen[Len(w.seen)]]
        IN IF w.cycle
           THEN last.based_on # None /\ last.based_on[1] \in Ids(w.seen)
           ELSE last.based_on = None

\* C23: the walk along a style's basedOn chain always terminates: it stops
\* at a style with no parent or at the first id it has already visited,
\* having visited no style twice, and on a cycle the resolution completes
\* with the property values collected so far.
C23_ChainWalkTerminates ==
  /\ <>WalkResolved
  /\ [](walk[1].done => WalkResolved)
  /\ [](Len(walk[1].seen) <= Cardinality(DOMAIN styles))

\* the walk from style 1 of three styles, 1 based on 2, 2 on 3 and 3 on 2,
\* has stopped at the cycle with bold from style 2 and size from style 3
C23_Witness ==
  /\ walk # None
  /\ walk[1].done /\ walk[1].cycle
  /\ walk[1].seen = <<1, 2, 3>>
  /\ styles[3].based_on = Some(2)
  /\ DOMAIN styles[1].properties = {}
  /\ walk[1].values = [p \in StyleProperties |-> IF p = "bold" THEN 2 ELSE 3]

====
